---- MODULE Spec2Model ----
(***************************************************************************)
(* A model of klampt.vis.visualization: the display-list cache             *)
(* (CachedGLObject), the per-item appearance (VisAppearance), the item     *)
(* registry (VisualizationPlugin) and the window / render-thread           *)
(* lifecycle (show, dialog, kill, _run_app_thread).                        *)
(*                                                                         *)
(* The module holds several specifications over one set of variables:      *)
(*   SpecCache  one CachedGLObject driven by draw / markChanged / destroy, *)
(*              with draw calls nested inside a running renderFunction;    *)
(*   SpecApp    one VisAppearance driven by its own methods;               *)
(*   SpecAnim   one VisAppearance under the update / swap calls of a frame;*)
(*   SpecReg    the registry operations of VisualizationPlugin, called by  *)
(*              one thread, with the global lock;                          *)
(*   SpecFrame  the registry with the frames of a render thread between    *)
(*              its calls;                                                 *)
(*   SpecThr    the script thread and the render thread interleaved;       *)
(*   SpecWin    SpecThr without the registry calls;                        *)
(*   SpecDisabled  the module-level calls while _vis is None;              *)
(*   SpecLabel  the labels of a frame under addLabel;                      *)
(*   SpecClock  the animation clock under idlefunc and the clock calls;    *)
(*   SpecOverride  one VisAppearance of an item with its own appearance;   *)
(*   SpecIds    SpecWin with createWindow, setWindow and getWindow;        *)
(*   SpecFrameAnim  frames over animated items, with the clock advancing;  *)
(*   SpecShare  the attributes of composite items;                         *)
(*   SpecGeneric  frames over generic items and a world;                   *)
(*   SpecHide   hide and hideLabel between frames;                         *)
(*   SpecHidden  frames and draw() over hidden items;                      *)
(*   SpecIK     one appearance of an IKGoal, drawn with and without world;  *)
(*   SpecGLInit  glinit.init() with lists of backend names.                 *)
(* Each specification leaves the variables of the others at their initial  *)
(* values.                                                                 *)
(***************************************************************************)
EXTENDS Integers, Sequences, FiniteSets, TLC

VARIABLES
    obj,      \* SpecCache: the CachedGLObject under test
    gl,       \* the OpenGL state the caches act on (shared by SpecCache, SpecApp, SpecReg)
    stack,    \* SpecCache: the draw() calls whose renderFunction is running, innermost last
    hist,     \* SpecCache: what the last call did, and what the caller has done so far
    app,      \* SpecApp, SpecAnim: the VisAppearance under test
    ahist,    \* SpecApp, SpecAnim: what the last call on it did
    items,    \* SpecReg: VisualizationPlugin.items, name -> VisAppearance
    globalLock,  \* _globalLock: "free", or the thread that acquired it
    rhist,    \* SpecReg: the last registry call and how it ended
    mod,      \* the module's globals _quit, _thread_running, _windows, _current_window, _vis, _frontend
    threads,  \* SpecThr: where each render thread (_run_app_thread) stands
    script,   \* SpecThr: where the script thread stands inside a call that takes several steps
    thist,    \* SpecThr: what the script's calls returned and how the frames ran
    vis,      \* SpecLabel, SpecClock: the VisualizationPlugin's own fields: labels, animate, animationTime
    glinit,   \* SpecGLInit: the globals of glinit: _BackendStatus, _GLBackend, _BackendString
    ghist     \* SpecGLInit: the installed toolkits, and what the last calls of init() did

cacheVars == <<obj, stack, hist>>

appVars == <<app, ahist>>

regVars == <<items, rhist>>

thrVars == <<mod, threads, script, thist>>

initVars == <<glinit, ghist>>

notCacheVars == <<appVars, regVars, thrVars, globalLock, vis, initVars>>

notAppVars == <<cacheVars, regVars, thrVars, globalLock, vis, initVars>>

notRegVars == <<cacheVars, appVars, thrVars, vis, initVars>>

notThrVars == <<cacheVars, appVars, rhist, vis, initVars>>

vars ==
    <<obj, gl, stack, hist, app, ahist, items, globalLock, rhist,
      mod, threads, script, thist, vis, glinit, ghist>>

----------------------------------------------------------------------------
(* Bounds of the model *)

\* display-list names glGenLists can hand out
MaxLists == 3
\* distinct non-None values of draw()'s `parameters` argument
MaxParam == 2
\* draw() calls that can be active at once (one compiling, the rest nested in it)
MaxDepth == 3
\* render threads that exist at once (started and not yet returned)
MaxThreads == 2
\* length of a configuration vector (0 is the empty vector)
MaxLen == 1
\* sub-items of a composite item (points of a Group, contacts of a Hold)
MaxMembers == 2
\* values of the animation clock
MaxTime == 1

----------------------------------------------------------------------------
(* Python values *)

\* None, among display-list names, `parameters` and `transform` values (all >= 1)
None == 0

\* the values of draw()'s `parameters` argument: None (the default) or a value
Parameters == {None} \cup (1..MaxParam)

\* the values of draw()'s `transform` argument: None (the default) or a transform
Transforms == {None, 1}

ListNames == 1..MaxLists

----------------------------------------------------------------------------
(* OpenGL: display lists and the matrix stack.  glGenLists is modelled as   *)
(* handing out a name never used before, so that the number of             *)
(* glDeleteLists calls on a name can be counted.                           *)

GLInit ==
    [ lists     |-> {},                        \* names generated and not deleted
      next      |-> 1,                         \* the name glGenLists returns next
      recording |-> <<>>,                      \* lists opened by glNewList and not ended
      matrix    |-> 0,                         \* depth of glPushMatrix
      deleted   |-> [h \in ListNames |-> 0] ]  \* glDeleteLists calls per name

glCanGenLists(g) == g.next \in ListNames

glGenLists(g) == [g EXCEPT !.lists = @ \cup {g.next}, !.next = @ + 1]

glDeleteLists(g, h) == [g EXCEPT !.lists = @ \ {h}, !.deleted[h] = @ + 1]

glNewList(g, h) == [g EXCEPT !.recording = Append(@, h)]

glEndList(g) == [g EXCEPT !.recording = SubSeq(@, 1, Len(@) - 1)]

glPushMatrix(g) == [g EXCEPT !.matrix = @ + 1]

glPopMatrix(g) == [g EXCEPT !.matrix = @ - 1]

----------------------------------------------------------------------------
(* CachedGLObject *)

CachedGLObject ==
    [ glDisplayList         |-> None,
      makingDisplayList     |-> FALSE,
      displayListParameters |-> None,
      changed               |-> FALSE ]

\* CachedGLObject.destroy: the object afterwards
destroyObj(c) == [c EXCEPT !.glDisplayList = None]

\* a mutant of destroyGL: glDeleteLists is not called
destroyGL_keep(c, g) == g

\* CachedGLObject.destroy: the GL state afterwards
destroyGL(c, g) ==
    IF c.glDisplayList # None THEN glDeleteLists(g, c.glDisplayList) ELSE g

\* CachedGLObject.markChanged
markChanged(c) == [c EXCEPT !.changed = TRUE]

\* a mutant of needsCompile: the dirty bit is not consulted
needsCompile_noDirty(c, parameters) ==
    \/ c.glDisplayList = None
    \/ parameters # c.displayListParameters

\* the test of draw() that sends it to the compiling branch
needsCompile(c, parameters) ==
    \/ c.glDisplayList = None
    \/ c.changed
    \/ parameters # c.displayListParameters

\* a mutant of isReentered: the marker for recursive calls is ignored
isReentered_never(c) == FALSE

\* the first test of draw(): a call made while this object compiles
isReentered(c) == c.makingDisplayList

\* a mutant of compileEnterObj: the name glGenLists returned is not stored
compileEnterObj_dropHandle(c, parameters, g) ==
    [c EXCEPT !.displayListParameters = parameters,
              !.changed = FALSE,
              !.makingDisplayList = TRUE]

\* draw(), compiling branch, up to the call of renderFunction: the object
compileEnterObj(c, parameters, g) ==
    [c EXCEPT !.displayListParameters = parameters,
              !.changed = FALSE,
              !.glDisplayList = IF @ = None THEN g.next ELSE @,
              !.makingDisplayList = TRUE]

\* draw(), compiling branch, up to the call of renderFunction: the GL state
compileEnterGL(c, transform, g) ==
    LET g1 == IF c.glDisplayList = None THEN glGenLists(g) ELSE g
        g2 == IF transform # None THEN glPushMatrix(g1) ELSE g1
        h  == IF c.glDisplayList = None THEN g.next ELSE c.glDisplayList
    IN  glNewList(g2, h)

\* draw(), compiling branch, after renderFunction returned: the object
compileExitObj(c) == [c EXCEPT !.makingDisplayList = FALSE]

\* draw(), compiling branch, after renderFunction returned: the GL state
compileExitGL(transform, g) ==
    LET g1 == glEndList(g)
    IN  IF transform # None THEN glPopMatrix(g1) ELSE g1

----------------------------------------------------------------------------
(* Items, configurations and animations *)

\* configuration vectors, the empty one included
Configs == UNION {[1..n -> {1, 2}] : n \in 0..MaxLen}

\* an optional value: None is <<>>, a value v is <<v>>
Nothing == <<>>

Some(v) == <<v>>

\* Python's truth value of an optional vector: None and the empty vector are false
Truthy(o) == o # Nothing /\ o[1] # <<>>

\* a plain vector item (a list of floats): its configuration is the list itself
VectorItem(q) == [kind |-> "Vector3", q |-> q, members |-> 0, robot |-> FALSE]

\* a coordinates.Group with n points, a Hold with n contacts, an IKObjective
GroupItem(q, n) ==
    [kind |-> "Group", q |-> q, members |-> n, robot |-> FALSE, subgroups |-> 0]

\* a coordinates.Group with n points and one subgroup, which has one point
NestedGroupItem(q, n) == [GroupItem(q, n) EXCEPT !.subgroups = 1]

HoldItem(q, n) == [kind |-> "Hold", q |-> q, members |-> n, robot |-> FALSE]

IKGoalItem(q, r) == [kind |-> "IKGoal", q |-> q, members |-> 0, robot |-> r]

\* a member of a composite item: a coordinates.Point of a Group, a ContactPoint of a Hold
MemberItem(kind) == [kind |-> kind, q |-> <<>>, members |-> 0, robot |-> FALSE]

\* the items SpecApp draws: one of each kind, composites of every size
DrawItems ==
    {VectorItem(<<>>)}
    \cup {GroupItem(<<>>, n) : n \in 0..MaxMembers}
    \cup {HoldItem(<<>>, n) : n \in 0..MaxMembers}
    \cup {IKGoalItem(<<>>, r) : r \in BOOLEAN}

\* the items SpecAnim animates: every configuration, plain and composite
AnimItems ==
    {VectorItem(q) : q \in Configs} \cup {GroupItem(q, 1) : q \in Configs}

\* trajectories: milestones at times 0, 1, 2 that return to the first one
Animations == {<<a, b, a>> : a, b \in Configs}

Times == 0..MaxTime

\* Trajectory.eval(u, 'loop') at a whole time u: the time is wrapped into the
\* trajectory's domain [0, n-1] and the milestone there is returned
evalLoop(animation, u) ==
    IF Len(animation) = 1 THEN animation[1]
    ELSE animation[(u % (Len(animation) - 1)) + 1]

\* config.getConfig(item)
getConfig(item) == item.q

\* a mutant of setConfigFails: a vector of any length is applied
setConfigFails_never(item, vector) == FALSE

\* config.setConfig(item, vector) raises: the vector has the wrong length
setConfigFails(item, vector) == Len(vector) # Len(item.q)

\* config.setConfig(item, vector): the item it returns
setConfig(item, vector) == [item EXCEPT !.q = vector]

----------------------------------------------------------------------------
(* VisAppearance.  subAppearances is kept as a sequence of <<key, appearance>>  *)
(* in the order the code's loops visit the dict.  `attributes` is a dict that   *)
(* several appearances can hold: the field is the content of the dict an       *)
(* appearance holds, and sharedAttributes says that this dict is the very      *)
(* object held by the appearance whose subAppearances this one is in.  A       *)
(* write into a dict is made in every appearance that holds it.                *)

Absent == "absent"

AttrKeys == {"color", "size", "text_hidden"}

AttrValues == {"a", "bad", "rgba", "rgba2", "True", "False"}

\* None as the `value` argument of setAttribute
PyNone == "None"

EmptyDict == [k \in AttrKeys |-> Absent]

\* VisAppearance.__init__ without the call of setItem
newAppearance(item, name) ==
    [ name                 |-> name,
      item                 |-> item,
      hidden               |-> FALSE,
      useDefaultAppearance |-> TRUE,
      customAppearance     |-> None,
      subAppearances       |-> <<>>,
      animation            |-> Nothing,
      animationStartTime   |-> 0,
      animationSpeed       |-> 1,
      attributes           |-> EmptyDict,
      sharedAttributes     |-> FALSE,
      displayCache         |-> <<CachedGLObject>>,
      drawConfig           |-> Nothing,
      widget               |-> FALSE ]      \* self.widget is not None

RECURSIVE setItem(_, _)
\* the sub-appearances setItem makes for an item, each by VisAppearance(f, n):
\* the points and the subgroups of a Group, the contacts of a Hold
subsOf(item) ==
    IF item.kind = "Group"
       THEN [i \in 1..item.members |->
                [key |-> <<"Point", i>>,
                 app |-> setItem(newAppearance(MemberItem("Point"), ToString(i)),
                                 MemberItem("Point"))]]
            \o [i \in 1..item.subgroups |->
                   [key |-> <<"Subgroup", i>>,
                    app |-> setItem(newAppearance(GroupItem(<<>>, 1), "g" \o ToString(i)),
                                    GroupItem(<<>>, 1))]]
    ELSE IF item.kind = "Hold"
       THEN [i \in 1..item.members |->
                [key |-> <<"contact", i>>,
                 app |-> setItem(newAppearance(MemberItem("ContactPoint"), ToString(i)),
                                 MemberItem("ContactPoint"))]]
    ELSE <<>>

\* a.attributes = self.attributes (line 574): the appearance holds the dict
\* of its holder from now on, and its own sub-appearances are left with the
\* dict it held before
shareAttributes(a, attributes) ==
    [a EXCEPT !.attributes = attributes,
              !.sharedAttributes = TRUE,
              !.subAppearances =
                  [i \in DOMAIN @ |-> [@[i] EXCEPT !.app.sharedAttributes = FALSE]]]

\* VisAppearance.setItem: the old sub-appearances are dropped as they are,
\* and the new ones are given the dict of this appearance
setItem(a, item) ==
    [a EXCEPT !.item = item,
              !.subAppearances =
                  [i \in DOMAIN subsOf(item) |->
                      [subsOf(item)[i] EXCEPT !.app = shareAttributes(@, a.attributes)]]]

RECURSIVE setAttr(_, _, _)
\* self.attributes[attr] = value, as every appearance that holds that dict
\* reads it: this one, and below it those that share the dict of their holder
setAttr(a, attr, value) ==
    [a EXCEPT !.attributes[attr] = value,
              !.subAppearances =
                  [i \in DOMAIN @ |->
                      IF @[i].app.sharedAttributes
                         THEN [@[i] EXCEPT !.app = setAttr(@, attr, value)]
                         ELSE @[i]]]

\* VisAppearance.__init__
VisAppearance(item, name) == setItem(newAppearance(item, name), item)

RECURSIVE markChangedApp(_)
\* VisAppearance.markChanged
markChangedApp(a) ==
    [a EXCEPT !.displayCache = [i \in DOMAIN @ |-> markChanged(@[i])],
              !.subAppearances =
                  [i \in DOMAIN @ |-> [@[i] EXCEPT !.app = markChangedApp(@)]]]

RECURSIVE destroyCachesGL(_, _)
\* VisAppearance.destroy, first loop: the GL state after destroying the caches
destroyCachesGL(caches, g) ==
    IF caches = <<>> THEN g
    ELSE destroyCachesGL(Tail(caches), destroyGL(Head(caches), g))

\* a mutant of destroyCaches: the handles are kept after glDeleteLists
destroyCaches_keepHandle(caches) == caches

\* VisAppearance.destroy, first loop: the caches afterwards
destroyCaches(caches) == [i \in DOMAIN caches |-> destroyObj(caches[i])]

RECURSIVE destroyAppGL(_, _)
RECURSIVE destroySubsGL(_, _)
\* VisAppearance.destroy: the GL state afterwards
destroyAppGL(a, g) ==
    destroySubsGL(a.subAppearances, destroyCachesGL(a.displayCache, g))

\* VisAppearance.destroy, second loop
destroySubsGL(subs, g) ==
    IF subs = <<>> THEN g
    ELSE destroySubsGL(Tail(subs), destroyAppGL(Head(subs).app, g))

\* VisAppearance.destroy: the appearance afterwards
destroyApp(a) ==
    [a EXCEPT !.displayCache = destroyCaches(@), !.subAppearances = <<>>]

\* the assignments of animate(name, animation, speed) at animation clock t
animated(a, animation, speed, t) ==
    markChangedApp([a EXCEPT !.animation = Some(animation),
                             !.animationStartTime = t,
                             !.animationSpeed = speed])

RECURSIVE update(_, _)
\* VisAppearance.update
update(a, t) ==
    [a EXCEPT !.drawConfig =
                  IF a.animation = Nothing THEN Nothing
                  ELSE Some(evalLoop(a.animation[1],
                                     a.animationSpeed * (t - a.animationStartTime))),
              !.subAppearances = [i \in DOMAIN @ |-> [@[i] EXCEPT !.app = update(@, t)]]]

RECURSIVE swapDrawConfig_noStore(_)
\* a mutant of swapDrawConfig: the replaced configuration is not kept
swapDrawConfig_noStore(a) ==
    LET swaps == Truthy(a.drawConfig) /\ ~setConfigFails(a.item, a.drawConfig[1])
    IN  [a EXCEPT !.item = IF swaps THEN setConfig(a.item, a.drawConfig[1]) ELSE @,
                  !.subAppearances =
                      [i \in DOMAIN @ |-> [@[i] EXCEPT !.app = swapDrawConfig_noStore(@)]]]

RECURSIVE swapDrawConfig(_)
\* VisAppearance.swapDrawConfig: an exception of setConfig is caught, and the
\* item and drawConfig stay as they were
swapDrawConfig(a) ==
    LET swaps == Truthy(a.drawConfig) /\ ~setConfigFails(a.item, a.drawConfig[1])
    IN  [a EXCEPT !.item = IF swaps THEN setConfig(a.item, a.drawConfig[1]) ELSE @,
                  !.drawConfig = IF swaps THEN Some(getConfig(a.item)) ELSE @,
                  !.subAppearances =
                      [i \in DOMAIN @ |-> [@[i] EXCEPT !.app = swapDrawConfig(@)]]]

\* CachedGLObject.draw with a renderFunction that draws primitives only
\* (drawRaw): the whole call, the object afterwards
drawObj(c, parameters, g) ==
    IF isReentered(c) THEN c
    ELSE IF needsCompile(c, parameters)
         THEN compileExitObj(compileEnterObj(c, parameters, g))
    ELSE c

\* CachedGLObject.draw with such a renderFunction: the GL state afterwards
drawGL(c, transform, parameters, g) ==
    IF isReentered(c) THEN g
    ELSE IF needsCompile(c, parameters)
         THEN compileExitGL(transform, compileEnterGL(c, transform, g))
    ELSE g

\* the display lists an appearance holds, its sub-appearances' included
RECURSIVE listsOf(_)
listsOf(a) ==
    ({a.displayCache[i].glDisplayList : i \in DOMAIN a.displayCache} \ {None})
    \cup UNION {listsOf(a.subAppearances[i].app) : i \in DOMAIN a.subAppearances}

\* the world argument of draw(): None, or a WorldModel with `robots` robots
\* whose first robot has `links` links
NoWorld == Nothing

WorldItem(robots, links) ==
    [kind |-> "WorldModel", q |-> <<>>, members |-> 0, robot |-> FALSE,
     robots |-> robots, links |-> links]

\* a generic item (a list of floats, a pair of lists): `types` is what
\* types.objectToTypes(item, world) returns for it, a list of candidate kinds
GenericItem(q, types) ==
    [kind |-> "Generic", q |-> q, members |-> 0, robot |-> FALSE, types |-> types]

\* len(t) for t == 'Config', the left side of the test of line 777
LenConfigName == 6

\* the test draw() makes on one candidate kind t of an ambiguous item
validType(t, world) ==
    \/ /\ t = "Config"
       /\ world # NoWorld
       /\ LenConfigName = world[1].links
    \/ t = "Vector3"
    \/ t = "RigidTransform"

RECURSIVE validtypes(_, _)
\* validtypes, in the order of itypes
validtypes(types, world) ==
    IF types = <<>> THEN <<>>
    ELSE (IF validType(Head(types), world) THEN <<Head(types)>> ELSE <<>>)
         \o validtypes(Tail(types), world)

\* a mutant of hasRobot: a robot is always found
hasRobot_always(item, world) == TRUE

\* the IKGoal branch of draw(): the item's own robot, else the first robot
\* of the world, is not None
hasRobot(item, world) ==
    item.robot \/ (world # NoWorld /\ world[1].robots >= 1)

\* a mutant of drawBranch: a hidden appearance is drawn like a visible one
drawBranch_drawsHidden(a, world) ==
    IF a.item.kind = "WorldModel" THEN "drawGL"
    ELSE IF Len(a.subAppearances) # 0 THEN "subs"
    ELSE IF a.item.kind \in {"Point", "ContactPoint", "Vector3"} THEN "cache"
    ELSE "nothing"

\* the branch of draw() an appearance takes: "hidden", "drawGL" (the item
\* draws itself), "subs", "cache" (through displayCache[0]), "ik" (through the
\* three caches of an IKGoal), "robot" (the world's robot is posed and drawn),
\* "ambiguous" and "no type" (the two early returns) or "nothing"
drawBranch(a, world) ==
    IF a.hidden THEN "hidden"
    ELSE IF a.item.kind = "WorldModel" THEN "drawGL"
    ELSE IF Len(a.subAppearances) # 0 THEN "subs"
    ELSE IF a.item.kind \in {"Point", "ContactPoint", "Vector3"} THEN "cache"
    ELSE IF a.item.kind = "IKGoal"
       THEN IF hasRobot(a.item, world) THEN "ik" ELSE "nothing"
    ELSE IF a.item.kind = "Generic"
       THEN LET valid == validtypes(a.item.types, world)
            IN  IF Len(valid) > 1 THEN "ambiguous"
                ELSE IF Len(valid) = 0 THEN "no type"
                ELSE IF valid[1] = "Config" THEN "robot"
                ELSE "cache"
    ELSE "nothing"

RECURSIVE drawWorld(_, _, _)
RECURSIVE drawSubsWorld(_, _, _)
\* VisAppearance.draw(world) (the display caches and the GL state; no label,
\* no appearance override): the appearance and the GL state afterwards
drawWorld(a, world, g) ==
    LET branch == drawBranch(a, world)
    IN  IF branch = "subs"
           THEN LET r == drawSubsWorld([i \in DOMAIN a.subAppearances |->
                                          [a.subAppearances[i] EXCEPT !.app.widget = a.widget]],
                                       world, g)
                IN  [app |-> [a EXCEPT !.subAppearances = r.subs], gl |-> r.gl]
        ELSE IF branch = "cache"
           THEN [app |-> [a EXCEPT !.displayCache[1] = drawObj(@, None, g)],
                 gl  |-> drawGL(a.displayCache[1], 1, None, g)]
        ELSE IF branch = "ik"
           THEN LET dc == IF Len(a.displayCache) < 3
                             THEN a.displayCache \o <<CachedGLObject, CachedGLObject>>
                             ELSE a.displayCache
                    c1 == drawObj(dc[1], None, g)
                    g1 == drawGL(dc[1], 1, None, g)
                    c2 == drawObj(dc[2], None, g1)
                    g2 == drawGL(dc[2], 1, None, g1)
                    c3 == drawObj(dc[3], 1, g2)
                    g3 == drawGL(dc[3], None, 1, g2)
                IN  [app |-> [a EXCEPT !.displayCache = <<c1, c2, c3>>], gl |-> g3]
        ELSE [app |-> a, gl |-> g]

\* VisAppearance.draw, the loop over the sub-appearances
drawSubsWorld(subs, world, g) ==
    IF subs = <<>> THEN [subs |-> <<>>, gl |-> g]
    ELSE LET r1 == drawWorld(Head(subs).app, world, g)
             r2 == drawSubsWorld(Tail(subs), world, r1.gl)
         IN  [subs |-> <<[Head(subs) EXCEPT !.app = r1.app]>> \o r2.subs, gl |-> r2.gl]

\* draw(), with the default world=None
draw(a, g) == drawWorld(a, NoWorld, g)

drawSubs(subs, g) == drawSubsWorld(subs, NoWorld, g)

----------------------------------------------------------------------------
(* VisualizationPlugin: the registry.  `items` maps each registered name to  *)
(* a reference (the identity of the VisAppearance object) and the object.    *)

Names == {"x", "y"}

\* the colors setColor() is called with
Colors == {"rgba", "rgba2"}

\* the names add() is called with; "y" is never registered
AddNames == {"x"}

\* the items add() is called with: a plain vector and a Group with one point
RegItems == {VectorItem(<<1>>), GroupItem(<<>>, 1)}

\* VisualizationPlugin.__init__: self.items = {}
NoItems == [n \in {} |-> [ref |-> 1, obj |-> newAppearance(VectorItem(<<>>), n)]]

\* a reference no registered appearance has
freshRef(its) == CHOOSE r \in 1..(Cardinality(DOMAIN its) + 1) :
                     \A n \in DOMAIN its : its[n].ref # r

\* SpecReg: the record of the last registry call
RHistInit ==
    [ op      |-> "none",
      name    |-> "",
      outcome |-> "returned",  \* "returned", or the exception the call raised
      lookup  |-> FALSE,       \* the call looked `name` up in items
      absent  |-> FALSE,       \* ... and `name` was not registered
      keep    |-> FALSE,       \* add() with keepAppearance on a registered name
      pre     |-> NoItems,     \* items before the call (kept for absent, keep and
                               \* the calls that change nothing)
      args    |-> <<>>,        \* the arguments of the call after `name`
      result  |-> <<>> ]       \* the value the call returned, if it returns one

\* SpecApp: the record of the calls made on the appearance
AHistInit ==
    [ event |-> "none",   \* the last call, numbered when it repeats the one before
      item0 |-> VectorItem(<<>>),   \* the item before the last update()
      mid   |-> VectorItem(<<>>),   \* the item after the swap that followed it
      held  |-> {},       \* the display lists held before the last first destroy()
      glPre |-> GLInit,   \* the GL state before the last call
      world |-> <<>> ]    \* the world argument of the last draw(world)

----------------------------------------------------------------------------
(* SpecCache: the calls on one CachedGLObject.  A draw() that reaches       *)
(* renderFunction stays on `stack` until renderFunction returns; while it  *)
(* is there renderFunction may call draw() on the same object again.       *)
(* markChanged and destroy come from the owner of the object, between      *)
(* draws.                                                                  *)

HistInit ==
    [ event    |-> "none",   \* the last call's branch
      nested   |-> FALSE,    \* was it made from inside a renderFunction
      expect   |-> FALSE,    \* did the caller's history call for a recompilation
      runs     |-> 0,        \* renderFunction invocations of the last draw
      opened   |-> 0,        \* glNewList calls of the last draw
      replayed |-> 0,        \* glCallList calls of the last draw
      pre      |-> CachedGLObject,  \* the object when the last draw was called
      live     |-> FALSE,    \* a handle was compiled and not destroyed since
      prevFp   |-> None,     \* `parameters` of the previous non-nested draw
      marked   |-> FALSE ]   \* markChanged was called since the previous non-nested draw

(* The window and the render thread: the module's globals.  createWindow  *)
(* is the only other place that appends to _windows, so the list holds at *)
(* most the one window _show or _dialog appends.                          *)

\* WindowInfo.__init__: window is "is not None", guidata is None, the
\* _MyDialog or the _MyWindow, visible is guidata.isVisible()
WindowInfo ==
    [ mode |-> "shown", window |-> FALSE, guidata |-> "None", visible |-> FALSE ]

\* the globals after import: vis is "_vis is not None", plugins is
\* _frontend.plugins after _frontend.setPlugin(_vis)
ModInit ==
    [ quit           |-> FALSE,
      thread_running |-> FALSE,
      windows        |-> <<>>,
      current_window |-> Nothing,
      vis            |-> TRUE,
      plugins        |-> <<"vis">> ]

ThreadIds == 1..MaxThreads

\* no render thread exists
NoThreads == [i \in ThreadIds |-> "none"]

\* the script thread is between two calls
ScriptIdle == [pc |-> "idle", name |-> ""]

\* SpecThr: the record of what the script's calls returned and how frames ran
THistInit ==
    [ showing      |-> FALSE,   \* show() returned; no show(True), user close or kill() since
      shownResult  |-> "none",  \* what shown() returned, if it was the script's last call
      killSaw      |-> FALSE,   \* a render thread existed when the last kill() was called
      killReturned |-> FALSE,   \* ... and that kill() was the script's last call and returned
      lastFrame    |-> "none",  \* the last display(): "locked" (by its thread) or "unlocked"
      torn         |-> FALSE,   \* ... and it drew an entry that remove() had destroyed
      locked       |-> FALSE,   \* the script called lock() and has not called unlock() since
      dismissed    |-> FALSE,   \* the user closed the dialog or the window since dialog() was called
      dialogReturned |-> FALSE ]  \* dialog() was the script's last call and returned

\* the variables of SpecThr when another specification runs
IdleThr ==
    mod = ModInit /\ threads = NoThreads /\ script = ScriptIdle /\ thist = THistInit

\* VisualizationPlugin.__init__: labels = [], animate = True, animationTime = 0
VisInit == [labels |-> <<>>, animate |-> TRUE, animationTime |-> 0]

\* glinit's globals after import: _BackendStatus = dict(), _GLBackend = None,
\* _BackendString = None
GLInitGlobals ==
    [ BackendStatus |-> <<>>,
      GLBackend     |-> Nothing,
      BackendString |-> Nothing ]

\* SpecGLInit: the record of the last call of init()
GHistInit ==
    [ installed |-> {},       \* the toolkits whose imports succeed
      created   |-> 0,        \* backend objects constructed so far
      backends  |-> <<>>,     \* the argument of the last call
      before    |-> Nothing,  \* _GLBackend when it was called
      returned  |-> Nothing,  \* what it returned
      looped    |-> FALSE,    \* it got to the loop over `backends`
      attempts  |-> <<>>,     \* the last call that got to the loop: the names
                              \* whose branch it entered, in order
      skipped   |-> <<>> ]    \* ... and the names it passed over because tried() held

\* the variables of SpecGLInit when another specification runs
IdleGLInit == glinit = GLInitGlobals /\ ghist = GHistInit

\* the variables of SpecCache when another specification runs
IdleCache == obj = CachedGLObject /\ stack = <<>> /\ hist = HistInit

\* the variables of SpecApp and SpecAnim when another specification runs
IdleApp == app = VisAppearance(VectorItem(<<>>), "x") /\ ahist = AHistInit

\* the variables of SpecReg when another specification runs
IdleReg == items = NoItems /\ rhist = RHistInit

InitCache ==
    /\ IdleGLInit
    /\ obj = CachedGLObject
    /\ gl = GLInit
    /\ vis = VisInit
    /\ stack = <<>>
    /\ hist = HistInit
    /\ IdleApp /\ IdleReg /\ IdleThr /\ globalLock = "free"

\* what the history asks of a non-nested draw with parameters fp
Expected(fp) == ~hist.live \/ fp # hist.prevFp \/ hist.marked

\* draw() called while this object compiles: renderFunction is run directly
DrawDirect(transform, parameters) ==
    /\ Len(stack) < MaxDepth
    /\ isReentered(obj)
    /\ stack' = Append(stack, [mode |-> "direct", transform |-> transform])
    /\ hist' = [hist EXCEPT !.event = "direct", !.nested = (Len(stack) > 0),
                            !.expect = Expected(parameters), !.runs = 1,
                            !.opened = 0, !.replayed = 0, !.pre = obj]
    /\ UNCHANGED <<obj, gl, notCacheVars>>

\* draw(), compiling branch, up to the call of renderFunction
DrawCompile(transform, parameters) ==
    /\ Len(stack) < MaxDepth
    /\ ~isReentered(obj)
    /\ needsCompile(obj, parameters)
    /\ obj.glDisplayList = None => glCanGenLists(gl)
    /\ obj' = compileEnterObj(obj, parameters, gl)
    /\ gl' = compileEnterGL(obj, transform, gl)
    /\ stack' = Append(stack, [mode |-> "compile", transform |-> transform])
    /\ hist' = [hist EXCEPT !.event = "compile", !.nested = (Len(stack) > 0),
                            !.expect = Expected(parameters), !.runs = 1,
                            !.opened = Len(gl'.recording) - Len(gl.recording),
                            !.replayed = 0, !.pre = obj,
                            !.live = TRUE, !.prevFp = parameters, !.marked = FALSE]
    /\ UNCHANGED notCacheVars

\* draw(), replaying branch: the whole call (renderFunction is not run)
DrawReplay(transform, parameters) ==
    /\ ~isReentered(obj)
    /\ ~needsCompile(obj, parameters)
    /\ hist' = [hist EXCEPT !.event = "replay", !.nested = (Len(stack) > 0),
                            !.expect = Expected(parameters), !.runs = 0,
                            !.opened = 0, !.replayed = 1, !.pre = obj,
                            !.prevFp = parameters, !.marked = FALSE]
    /\ UNCHANGED <<obj, gl, stack, notCacheVars>>

\* renderFunction returns to the draw() that called it, and that draw() returns
RenderReturn ==
    /\ Len(stack) > 0
    /\ LET top == stack[Len(stack)]
       IN  /\ stack' = SubSeq(stack, 1, Len(stack) - 1)
           /\ IF top.mode = "compile"
                 THEN /\ obj' = compileExitObj(obj)
                      /\ gl' = compileExitGL(top.transform, gl)
                      /\ hist' = [hist EXCEPT !.event = "compiled"]
                 ELSE /\ UNCHANGED <<obj, gl>>
                      /\ hist' = [hist EXCEPT !.event = "directReturned"]
    /\ UNCHANGED notCacheVars

\* markChanged(), called by the owner between draws
MarkChanged ==
    /\ stack = <<>>
    /\ obj' = markChanged(obj)
    /\ hist' = [hist EXCEPT !.event = "mark", !.marked = TRUE]
    /\ UNCHANGED <<gl, stack, notCacheVars>>

\* destroy(), called by the owner between draws
Destroy ==
    /\ stack = <<>>
    /\ obj' = destroyObj(obj)
    /\ gl' = destroyGL(obj, gl)
    /\ hist' = [hist EXCEPT !.event = "destroy", !.live = FALSE]
    /\ UNCHANGED <<stack, notCacheVars>>

NextCache ==
    \/ \E tr \in Transforms, p \in Parameters : DrawDirect(tr, p)
    \/ \E tr \in Transforms, p \in Parameters : DrawCompile(tr, p)
    \/ \E tr \in Transforms, p \in Parameters : DrawReplay(tr, p)
    \/ RenderReturn
    \/ MarkChanged
    \/ Destroy

SpecCache == InitCache /\ [][NextCache]_vars

DrawEvents == {"direct", "compile", "replay"}

C2_RecursionSafety ==
    (hist.event \in DrawEvents \cup {"directReturned"} /\ hist.nested) =>
        /\ hist.event \in {"direct", "directReturned"}
        /\ hist.runs = 1 /\ hist.opened = 0 /\ hist.replayed = 0
        /\ Len(gl.recording) = 1
        /\ obj = hist.pre

\* C2 witness: a nested draw ran its renderFunction directly and returned to
\* the compiling draw
C2_Witness ==
    /\ hist.event = "directReturned" /\ hist.nested
    /\ Len(stack) = 1 /\ stack[1].mode = "compile"

----------------------------------------------------------------------------
(* SpecApp: the methods of one VisAppearance, called one after the    *)
(* other, as the registry and the frame loop call them.                *)

Speeds == {1, 2}

InitApp ==
    /\ IdleGLInit
    /\ IdleCache /\ IdleReg /\ IdleThr /\ globalLock = "free"
    /\ gl = GLInit
    /\ vis = VisInit
    /\ app \in {VisAppearance(item, "x") : item \in DrawItems}
    /\ ahist = AHistInit

\* setItem(item), as add(name, item, keepAppearance=True) calls it
ASetItem(item) ==
    /\ app' = setItem(app, item)
    /\ ahist' = [AHistInit EXCEPT !.event = "setItem"]
    /\ UNCHANGED <<gl, notAppVars>>

\* markChanged()
AMarkChanged ==
    /\ app' = markChangedApp(app)
    /\ ahist' = [AHistInit EXCEPT !.event = "markChanged"]
    /\ UNCHANGED <<gl, notAppVars>>

\* destroy()
ADestroy ==
    /\ app' = destroyApp(app)
    /\ gl' = destroyAppGL(app, gl)
    /\ ahist' = [AHistInit EXCEPT
                    !.event = IF ahist.event \in {"destroy", "destroy2"}
                                 THEN "destroy2" ELSE "destroy",
                    !.held = IF ahist.event \in {"destroy", "destroy2"}
                                 THEN ahist.held ELSE listsOf(app),
                    !.glPre = gl]
    /\ UNCHANGED notAppVars

\* draw()
ADraw ==
    LET r == draw(app, gl)
    IN  /\ r.gl.next <= MaxLists + 1
        /\ app' = r.app
        /\ gl' = r.gl
        /\ ahist' = [AHistInit EXCEPT !.event = "draw"]
        /\ UNCHANGED notAppVars

NextApp ==
    \/ \E item \in DrawItems : ASetItem(item)
    \/ AMarkChanged
    \/ ADestroy
    \/ ADraw

SpecApp == InitApp /\ [][NextApp]_vars

----------------------------------------------------------------------------
(* SpecAnim: one VisAppearance, with or without an animation attached  *)
(* by animate(), under the update / swapDrawConfig calls of the frame  *)
(* loop and under setItem.                                             *)

InitAnim ==
    /\ IdleGLInit
    /\ IdleCache /\ IdleReg /\ IdleThr /\ globalLock = "free"
    /\ gl = GLInit
    /\ vis = VisInit
    /\ \E item \in AnimItems, animation \in Animations, speed \in Speeds, t \in Times :
           app \in {VisAppearance(item, "x"), animated(VisAppearance(item, "x"), animation, speed, t)}
    /\ ahist = AHistInit

\* setItem(item), as add(name, item, keepAppearance=True) calls it
AnSetItem(item) ==
    /\ app' = setItem(app, item)
    /\ ahist' = [AHistInit EXCEPT !.event = "setItem"]
    /\ UNCHANGED <<gl, notAppVars>>

\* update(t)
AUpdate(t) ==
    /\ app' = update(app, t)
    /\ ahist' = [AHistInit EXCEPT !.event = "update", !.item0 = app.item]
    /\ UNCHANGED <<gl, notAppVars>>

\* swapDrawConfig()
ASwapDrawConfig ==
    /\ app' = swapDrawConfig(app)
    /\ ahist' = [AHistInit EXCEPT
                    !.event = IF ahist.event = "update" THEN "swap1"
                              ELSE IF ahist.event = "swap1" THEN "swap2"
                              ELSE "swap",
                    !.item0 = IF ahist.event \in {"update", "swap1"}
                                 THEN ahist.item0 ELSE @,
                    !.mid = IF ahist.event = "update" THEN app'.item
                            ELSE IF ahist.event = "swap1" THEN ahist.mid
                            ELSE @]
    /\ UNCHANGED <<gl, notAppVars>>

NextAnim ==
    \/ \E item \in AnimItems : AnSetItem(item)
    \/ \E t \in Times : AUpdate(t)
    \/ ASwapDrawConfig

SpecAnim == InitAnim /\ [][NextAnim]_vars

\* C6: a second destroy() right after a first releases nothing and raises
\* nothing, and every display list the appearance (or cache) held before the
\* first destroy() has been released exactly once.
C6_DestroyIdempotent ==
    /\ \A h \in ListNames : gl.deleted[h] <= 1
    /\ ahist.event \in {"destroy", "destroy2"} =>
          /\ \A h \in ahist.held : gl.deleted[h] = 1 /\ h \notin gl.lists
          /\ listsOf(app) = {}
    /\ ahist.event = "destroy2" => gl = ahist.glPre

\* C6 witness: a second destroy() in a row on an appearance that held display
\* lists in several caches
C6_Witness ==
    /\ ahist.event = "destroy2"
    /\ Cardinality(ahist.held) >= 2

\* C7: after update(t); swapDrawConfig(); swapDrawConfig() the item, and so
\* its configuration, is what it was before the calls.
C7_SwapSymmetry ==
    ahist.event = "swap2" => app.item = ahist.item0

\* C7 witness: the two swaps ran with an animation attached, and between them
\* the item had the animated configuration, not its own
C7_Witness ==
    /\ ahist.event = "swap2"
    /\ app.animation # Nothing
    /\ ahist.mid # ahist.item0
    /\ app.item = ahist.item0

----------------------------------------------------------------------------
(* SpecReg: the registry operations, called by the script thread one    *)
(* after the other.  A call that finds _globalLock taken never returns, *)
(* so each operation is enabled only while the lock is free; a call     *)
(* that raises after acquire() leaves the lock with the caller, until   *)
(* unlock() is called.                                                  *)

InitReg ==
    /\ IdleGLInit
    /\ IdleCache /\ IdleApp /\ IdleThr
    /\ gl = GLInit
    /\ vis = VisInit
    /\ items = NoItems
    /\ globalLock = "free"
    /\ rhist = RHistInit

\* the call returned
Returned(op, name, lookup) ==
    [RHistInit EXCEPT !.op = op, !.name = name, !.lookup = lookup]

\* the call raised exc
Raised(op, name, exc, lookup) ==
    [RHistInit EXCEPT !.op = op, !.name = name, !.outcome = exc, !.lookup = lookup,
                      !.absent = lookup /\ name \notin DOMAIN items,
                      !.pre = IF lookup /\ name \notin DOMAIN items THEN items ELSE @]

\* the body of a method of the form: acquire; self.items[name].<change>;
\* release, where `changed` is the appearance after the change.
\* self.items[name] raises KeyError for an unregistered name, after
\* acquire() and with no release()
LookupCall(op, name, args, changed) ==
    /\ IF name \in DOMAIN items
          THEN /\ items' = [items EXCEPT ![name].obj = changed]
               /\ globalLock' = "free"
               /\ rhist' = [Returned(op, name, TRUE) EXCEPT !.args = args]
          ELSE /\ items' = items
               /\ globalLock' = "script"
               /\ rhist' = [Raised(op, name, "KeyError", TRUE) EXCEPT !.args = args]
    /\ UNCHANGED <<gl, notRegVars>>

\* add(name, item, keepAppearance): with keepAppearance on a registered name
\* the local `app` is never bound, and `self.items[name] = app` raises
\* UnboundLocalError after setItem, before release()
Add(name, item, keepAppearance) ==
    /\ globalLock = "free"
    /\ IF keepAppearance /\ name \in DOMAIN items
          THEN /\ items' = [items EXCEPT ![name].obj = setItem(@, item)]
               /\ gl' = gl
               /\ globalLock' = "script"
               /\ rhist' = [Raised("add", name, "UnboundLocalError", FALSE)
                               EXCEPT !.keep = TRUE, !.pre = items]
          ELSE /\ gl' = IF name \in DOMAIN items
                           THEN destroyAppGL(items[name].obj, gl) ELSE gl
               /\ items' = [n \in DOMAIN items \cup {name} |->
                               IF n = name
                                  THEN [ref |-> freshRef(items),
                                        obj |-> VisAppearance(item, name)]
                                  ELSE items[n]]
               /\ globalLock' = "free"
               /\ rhist' = Returned("add", name, FALSE)
    /\ UNCHANGED notRegVars

\* remove(name)
Remove(name) ==
    /\ globalLock = "free"
    /\ IF name \in DOMAIN items
          THEN /\ gl' = destroyAppGL(items[name].obj, gl)
               /\ items' = [n \in DOMAIN items \ {name} |-> items[n]]
               /\ globalLock' = "free"
               /\ rhist' = Returned("remove", name, TRUE)
          ELSE /\ UNCHANGED <<gl, items>>
               /\ globalLock' = "script"
               /\ rhist' = Raised("remove", name, "KeyError", TRUE)
    /\ UNCHANGED notRegVars

RECURSIVE destroyAllGL(_, _, _)
\* clear(), the loop: the GL state after destroying the appearances of `names`
destroyAllGL(its, names, g) ==
    IF names = {} THEN g
    ELSE LET n == CHOOSE m \in names : TRUE
         IN  destroyAllGL(its, names \ {n}, destroyAppGL(its[n].obj, g))

\* clear()
Clear ==
    /\ globalLock = "free"
    /\ gl' = destroyAllGL(items, DOMAIN items, gl)
    /\ items' = NoItems
    /\ globalLock' = "free"
    /\ rhist' = [Returned("clear", "", FALSE) EXCEPT !.pre = items]
    /\ UNCHANGED notRegVars

\* dirty('all'): the test `(name,itemvis) in self.items.iteritems()` reads
\* the names `name` and `itemvis`, which nothing binds: NameError after acquire()
DirtyAll ==
    /\ globalLock = "free"
    /\ globalLock' = "script"
    /\ rhist' = Raised("dirty", "all", "NameError", FALSE)
    /\ UNCHANGED <<gl, items, notRegVars>>

\* dirty(item_name)
Dirty(name) ==
    /\ globalLock = "free"
    /\ LookupCall("dirty", name, <<>>, markChangedApp(items[name].obj))

\* animate(name, animation, speed): __init__ sets the instance attribute
\* self.animate = True, which hides the method: the call _vis.animate(...)
\* calls a bool and raises TypeError, before anything else happens
Animate(name, animation, speed) ==
    /\ rhist' = [Raised("animate", name, "TypeError", FALSE)
                    EXCEPT !.absent = name \notin DOMAIN items,
                           !.pre = items,
                           !.args = <<animation, speed>>]
    /\ UNCHANGED <<gl, items, globalLock, notRegVars>>

\* getItemConfig(name): the item is read and nothing changes
getItemConfigChange(a) == a

GetItemConfig(name) ==
    /\ globalLock = "free"
    /\ IF name \in DOMAIN items
          THEN /\ items' = [items EXCEPT ![name].obj = getItemConfigChange(@)]
               /\ globalLock' = "free"
               /\ rhist' = [Returned("getItemConfig", name, TRUE) EXCEPT
                               !.pre = items,
                               !.result = <<getConfig(items[name].obj.item)>>]
          ELSE /\ items' = items
               /\ globalLock' = "script"
               /\ rhist' = Raised("getItemConfig", name, "KeyError", TRUE)
    /\ UNCHANGED <<gl, notRegVars>>

\* setItemConfig(name, value): config.getConfig(self.items[name].value, item):
\* KeyError for an unregistered name, else AttributeError (a VisAppearance has
\* no attribute `value`); both after acquire() and with no release()
SetItemConfig(name, value) ==
    /\ globalLock = "free"
    /\ globalLock' = "script"
    /\ rhist' = [Raised("setItemConfig", name,
                        IF name \in DOMAIN items THEN "AttributeError" ELSE "KeyError",
                        TRUE)
                    EXCEPT !.args = <<value>>]
    /\ UNCHANGED <<gl, items, notRegVars>>

\* a mutant of hideLabelChange: markChanged() is not called
hideLabelChange_noMark(a, hidden) == setAttr(a, "text_hidden", hidden)

\* hideLabel, the statements under the lock: the attribute is set and the
\* item is marked changed
hideLabelChange(a, hidden) ==
    markChangedApp(setAttr(a, "text_hidden", hidden))

\* hideLabel(name, hidden)
HideLabel(name, hidden) ==
    /\ globalLock = "free"
    /\ LookupCall("hideLabel", name, <<hidden>>, hideLabelChange(items[name].obj, hidden))

hideChange(a, hidden) == [a EXCEPT !.hidden = hidden]

\* hide(name, hidden)
Hide(name, hidden) ==
    /\ globalLock = "free"
    /\ LookupCall("hide", name, <<hidden>>, hideChange(items[name].obj, hidden))

setAppearanceChange(a, appearance) ==
    markChangedApp([a EXCEPT !.useDefaultAppearance = FALSE,
                             !.customAppearance = appearance])

\* setAppearance(name, appearance)
SetAppearance(name, appearance) ==
    /\ globalLock = "free"
    /\ LookupCall("setAppearance", name, <<appearance>>,
                  setAppearanceChange(items[name].obj, appearance))

\* a mutant of setAttributeChange: the key is not deleted for the value None
setAttributeChange_noDelete(a, attr, value) ==
    markChangedApp(setAttr(a, attr, value))

setAttributeChange(a, attr, value) ==
    markChangedApp(setAttr(a, attr, IF value = PyNone THEN Absent ELSE value))

\* setAttribute(name, attr, value): the key is set, and deleted again if the
\* value is None
SetAttribute(name, attr, value) ==
    /\ globalLock = "free"
    /\ LookupCall("setAttribute", name, <<attr, value>>,
                  setAttributeChange(items[name].obj, attr, value))

\* revertAppearance(name): the assignment goes to a new attribute
\* `useDefaultApperance`, which nothing reads; useDefaultAppearance stays
RevertAppearance(name) ==
    /\ globalLock = "free"
    /\ LookupCall("revertAppearance", name, <<>>, markChangedApp(items[name].obj))

\* a mutant of setColorChange: markChanged() is not called
setColorChange_noMark(a, color) ==
    [setAttr(a, "color", color) EXCEPT !.useDefaultAppearance = FALSE]

setColorChange(a, color) ==
    markChangedApp([setAttr(a, "color", color) EXCEPT !.useDefaultAppearance = FALSE])

\* setColor(name, r, g, b, a)
SetColor(name, color) ==
    /\ globalLock = "free"
    /\ LookupCall("setColor", name, <<color>>, setColorChange(items[name].obj, color))

\* lock(), called by the script
Lock ==
    /\ globalLock = "free"
    /\ globalLock' = "script"
    /\ rhist' = Returned("lock", "", FALSE)
    /\ UNCHANGED <<gl, items, notRegVars>>

\* unlock(), called by the script
Unlock ==
    /\ globalLock # "free"
    /\ globalLock' = "free"
    /\ rhist' = Returned("unlock", "", FALSE)
    /\ UNCHANGED <<gl, items, notRegVars>>

NextReg ==
    \/ \E name \in AddNames, item \in RegItems, keep \in BOOLEAN : Add(name, item, keep)
    \/ \E name \in Names : Remove(name)
    \/ Clear
    \/ DirtyAll
    \/ \E name \in Names : Dirty(name)
    \/ \E name \in Names, animation \in Animations, speed \in Speeds :
          Animate(name, animation, speed)
    \/ \E name \in Names : GetItemConfig(name)
    \/ \E name \in Names, value \in Configs : SetItemConfig(name, value)
    \/ \E name \in Names, hidden \in {"True", "False"} : HideLabel(name, hidden)
    \/ \E name \in Names, hidden \in BOOLEAN : Hide(name, hidden)
    \/ \E name \in Names : SetAppearance(name, 1)
    \/ \E name \in Names, value \in {"a", PyNone} : SetAttribute(name, "size", value)
    \/ \E name \in Names : RevertAppearance(name)
    \/ \E name \in Names, color \in Colors : SetColor(name, color)
    \/ Lock
    \/ Unlock

SpecReg == InitReg /\ [][NextReg]_vars

\* the operations C4 and C8 name
RegistryOps ==
    {"add", "remove", "clear", "dirty", "animate", "setAttribute", "setColor",
     "setAppearance", "revertAppearance", "hide", "hideLabel", "getItemConfig",
     "setItemConfig"}

\* C4 (as claimed): when a registry operation has returned or raised, the
\* global lock is free.
C4_LockFreeAfterCall ==
    rhist.op \in RegistryOps => globalLock = "free"

\* C5 (as claimed): add(name, B, keepAppearance=True) on a registered name
\* returns normally, and the entry is the same VisAppearance, now holding B,
\* with its hidden flag, useDefaultAppearance, customAppearance and attributes
\* as before the call.
C5_KeepAppearance ==
    rhist.keep =>
        /\ rhist.outcome = "returned"
        /\ rhist.name \in DOMAIN items
        /\ items[rhist.name].ref = rhist.pre[rhist.name].ref
        /\ LET new == items[rhist.name].obj
               old == rhist.pre[rhist.name].obj
           IN  /\ new.hidden = old.hidden
               /\ new.useDefaultAppearance = old.useDefaultAppearance
               /\ new.customAppearance = old.customAppearance
               /\ new.attributes = old.attributes

\* C8 (as claimed): an operation that looks up a name that is not registered
\* signals not-found (KeyError) and leaves items and every appearance as
\* they were.
C8_NotFound ==
    rhist.absent => (rhist.outcome = "KeyError" /\ items = rhist.pre)

----------------------------------------------------------------------------
(* SpecFrame: the registry under add / remove / setAttribute / setColor    *)
(* and the frames of the render thread.  A frame is display() run          *)
(* by a render thread that holds the lock, so it is one step, taken while  *)
(* the lock is free.  An item's drawRaw passes its "size" attribute to     *)
(* glPointSize, which raises for a value that is not a number; nothing in  *)
(* draw() or display() catches it.                                         *)

\* the threshold 0.1 of addLabel, in units of 0.05
LabelMergeDistance == 2

\* vectorops.distance for points of a line
distance(p, q) == IF p >= q THEN p - q ELSE q - p

\* a mutant of mergeable: a distance of exactly 0.1 is accepted too
mergeable_inclusive(labels, point, color) ==
    {i \in DOMAIN labels :
        labels[i].color = color /\ distance(labels[i].point, point) <= LabelMergeDistance}

\* the entries addLabel's test accepts
mergeable(labels, point, color) ==
    {i \in DOMAIN labels :
        labels[i].color = color /\ distance(labels[i].point, point) < LabelMergeDistance}

\* addLabel's loop: the first accepted entry gets the text, or a new entry
\* is appended
addLabel(labels, text, point, color) ==
    IF mergeable(labels, point, color) # {}
       THEN LET i == CHOOSE j \in mergeable(labels, point, color) :
                        \A k \in mergeable(labels, point, color) : j <= k
            IN  [labels EXCEPT ![i].textList = Append(@, text)]
    ELSE Append(labels, [point |-> point, textList |-> <<text>>, color |-> color])

RECURSIVE drawLabelsWorld(_, _, _)
RECURSIVE drawLabelsSubs(_, _, _)
\* the labels after VisAppearance.draw(world): a point or vector that is
\* drawn calls drawText(name, position), which adds a black label to the
\* widget unless the attribute text_hidden is set; the position is the first
\* coordinate
drawLabelsWorld(a, world, labels) ==
    IF a.hidden THEN labels
    ELSE IF Len(a.subAppearances) # 0 THEN drawLabelsSubs(a.subAppearances, world, labels)
    ELSE IF /\ \/ a.item.kind \in {"Point", "Vector3"}
               \/ a.item.kind = "Generic" /\ drawBranch(a, world) = "cache"
            /\ a.attributes["text_hidden"] # "True"
       THEN addLabel(labels, a.name, IF a.item.q = <<>> THEN 0 ELSE a.item.q[1], "black")
    ELSE labels

drawLabelsSubs(subs, world, labels) ==
    IF subs = <<>> THEN labels
    ELSE drawLabelsSubs(Tail(subs), world, drawLabelsWorld(Head(subs).app, world, labels))

\* the labels after draw(), with the default world=None
drawLabels(a, labels) == drawLabelsWorld(a, NoWorld, labels)

\* a value of the "size" attribute that glPointSize rejects
BadSize == "bad"

\* the values setAttribute(name, "size", value) is called with in SpecFrame
SizeValues == {"a", BadSize, PyNone}

\* the items SpecFrame registers: a Vector3 and a Group with one point
FrameItems == RegItems

\* the orders in which `for (k,v) in self.items.iteritems()` can visit names
Orders(names) ==
    {o \in [1..Cardinality(names) -> names] :
        \A i, j \in DOMAIN o : o[i] = o[j] => i = j}

RECURSIVE drawRaises(_)
\* VisAppearance.draw reaches drawRaw, and glPointSize raises in it: the
\* item, or a sub-appearance of it, is drawn through its own cache, which
\* compiles or is re-entered
drawRaises(a) ==
    /\ ~a.hidden
    /\ IF Len(a.subAppearances) # 0
          THEN \E i \in DOMAIN a.subAppearances : drawRaises(a.subAppearances[i].app)
          ELSE /\ a.item.kind \in {"Point", "Vector3"}
               /\ a.attributes["size"] = BadSize
               /\ (isReentered(a.displayCache[1]) \/ needsCompile(a.displayCache[1], None))

RECURSIVE drawRaisedApp(_, _)
RECURSIVE drawRaisedGL(_, _)
RECURSIVE drawRaisedLabels(_, _)
RECURSIVE drawRaisedSubs(_, _, _)
\* VisAppearance.draw when drawRaw raises: the appearance as the exception
\* leaves it, inside the compiling branch of CachedGLObject.draw
drawRaisedApp(a, g) ==
    IF Len(a.subAppearances) # 0
       THEN [a EXCEPT !.subAppearances =
                          drawRaisedSubs([i \in DOMAIN @ |-> [@[i] EXCEPT !.app.widget = a.widget]],
                                         g, <<>>).subs]
    ELSE IF isReentered(a.displayCache[1]) THEN a
    ELSE [a EXCEPT !.displayCache[1] = compileEnterObj(@, None, g)]

\* ... and the GL state: the list still open, the matrix still pushed
drawRaisedGL(a, g) ==
    IF Len(a.subAppearances) # 0 THEN drawRaisedSubs(a.subAppearances, g, <<>>).gl
    ELSE IF isReentered(a.displayCache[1]) THEN g
    ELSE compileEnterGL(a.displayCache[1], 1, g)

\* ... and the labels: those of the sub-appearances drawn before the one
\* that raised
drawRaisedLabels(a, labels) ==
    IF Len(a.subAppearances) # 0 THEN drawRaisedSubs(a.subAppearances, GLInit, labels).labels
    ELSE labels

\* the loop over the sub-appearances up to the one whose draw raises
drawRaisedSubs(subs, g, labels) ==
    LET h == Head(subs).app
    IN  IF drawRaises(h)
           THEN [subs   |-> <<[Head(subs) EXCEPT !.app = drawRaisedApp(h, g)]>> \o Tail(subs),
                 gl     |-> drawRaisedGL(h, g),
                 labels |-> drawRaisedLabels(h, labels)]
           ELSE LET r1 == draw(h, g)
                    r2 == drawRaisedSubs(Tail(subs), r1.gl, drawLabels(h, labels))
                IN  [r2 EXCEPT !.subs = <<[Head(subs) EXCEPT !.app = r1.app]>> \o @]

RECURSIVE compiles(_)
\* the display lists one draw() of the appearance compiles (glNewList calls)
compiles(a) ==
    IF a.hidden THEN 0
    ELSE IF Len(a.subAppearances) # 0 THEN 0
    ELSE IF a.item.kind \in {"Point", "ContactPoint", "Vector3"}
       THEN IF ~isReentered(a.displayCache[1]) /\ needsCompile(a.displayCache[1], None)
               THEN 1 ELSE 0
    ELSE 0

\* the display lists one draw() of the appearance replays (glCallList calls)
replays(a) ==
    IF a.hidden THEN 0
    ELSE IF Len(a.subAppearances) # 0 THEN 0
    ELSE IF a.item.kind \in {"Point", "ContactPoint", "Vector3"}
       THEN IF ~isReentered(a.displayCache[1]) /\ ~needsCompile(a.displayCache[1], None)
               THEN 1 ELSE 0
    ELSE 0

\* a mutant of startLabels: the labels of the frame before are kept
startLabels_keep(labels) == labels

\* display(), first statement: self.labels = []
startLabels(labels) == <<>>

\* display(): world = self.items.get('world', None), and its item
worldOf(its) ==
    IF "world" \in DOMAIN its THEN Some(its["world"].obj.item) ELSE NoWorld

RECURSIVE displayFrame(_, _, _, _, _)
\* VisualizationPlugin.display at animation clock t, visiting the names in
\* `order`: the items, the GL state and the labels afterwards, the names
\* whose loop body ran to its end, the display lists compiled and replayed
\* for each name, the branch draw() took for it, and whether an exception
\* ended it
displayFrame(its, order, g, t, labels) ==
    IF order = <<>>
       THEN [items |-> its, gl |-> g, labels |-> labels, visited |-> {}, raised |-> FALSE,
             compiled |-> [n \in DOMAIN its |-> 0],
             replayed |-> [n \in DOMAIN its |-> 0],
             branch   |-> [n \in DOMAIN its |-> "none"]]
    ELSE LET n  == Head(order)
             a1 == swapDrawConfig(update([its[n].obj EXCEPT !.widget = TRUE], t))
             world == worldOf(its)
         IN  IF drawRaises(a1)
                THEN [items    |-> [its EXCEPT ![n].obj = drawRaisedApp(a1, g)],
                      gl       |-> drawRaisedGL(a1, g),
                      labels   |-> drawRaisedLabels(a1, labels),
                      visited  |-> {},
                      raised   |-> TRUE,
                      compiled |-> [m \in DOMAIN its |-> 0],
                      replayed |-> [m \in DOMAIN its |-> 0],
                      branch   |-> [m \in DOMAIN its |-> "none"]]
                ELSE LET r    == drawWorld(a1, world, g)
                         a2   == [swapDrawConfig(r.app) EXCEPT !.widget = FALSE]
                         rest == displayFrame([its EXCEPT ![n].obj = a2], Tail(order),
                                              r.gl, t, drawLabelsWorld(a1, world, labels))
                     IN  [rest EXCEPT !.visited = @ \cup {n},
                                      !.compiled[n] = compiles(a1),
                                      !.replayed[n] = replays(a1),
                                      !.branch[n] = drawBranch(a1, world)]

InitFrame ==
    /\ IdleGLInit
    /\ IdleCache /\ IdleApp /\ IdleThr
    /\ gl = GLInit
    /\ vis = VisInit
    /\ items = NoItems
    /\ globalLock = "free"
    /\ rhist = RHistInit

\* one frame of the render thread in shown mode: acquire, processEvents()
\* delivers the paint event, display() runs, release.  An exception of
\* display() ends the paint event, and the loop goes on.  `result` records
\* the names visited to the end, the lists compiled per name, the names
\* whose cache had no list before and the lists replayed per name, and
\* `args` whether the registry call before this frame was a frame too
Display(order) ==
    /\ globalLock = "free"
    /\ order \in Orders(DOMAIN items)
    /\ LET r == displayFrame(items, order, gl, vis.animationTime, startLabels(vis.labels))
       IN  /\ r.gl.next <= MaxLists + 1
           /\ items' = r.items
           /\ gl' = r.gl
           /\ vis' = [vis EXCEPT !.labels = r.labels]
           /\ rhist' = [RHistInit EXCEPT
                           !.op = "display",
                           !.outcome = IF r.raised THEN "Error" ELSE "returned",
                           !.args = <<rhist.op = "display", rhist.op>>,
                           !.pre = items,
                           !.result = <<r.visited, r.compiled,
                                        {n \in DOMAIN items :
                                            items[n].obj.displayCache[1].glDisplayList = None},
                                        r.replayed, r.branch>>]
    /\ UNCHANGED <<globalLock, cacheVars, appVars, initVars, thrVars>>

NextFrame ==
    \/ \E name \in AddNames, item \in FrameItems, keep \in BOOLEAN : Add(name, item, keep)
    \/ \E name \in AddNames : Remove(name)
    \/ Clear
    \/ \E name \in AddNames, value \in SizeValues : SetAttribute(name, "size", value)
    \/ \E name \in AddNames, color \in Colors : SetColor(name, color)
    \/ \E order \in UNION {Orders(names) : names \in SUBSET Names} : Display(order)

SpecFrame == InitFrame /\ [][NextFrame]_vars

\* C16 (as claimed): a frame runs the loop body of display() to its end for
\* every registered item, whether or not drawing an item raised, and no
\* display cache is left in the middle of a compilation.
C16_FrameNotAborted ==
    rhist.op = "display" =>
        /\ rhist.result[1] = DOMAIN items
        /\ \A n \in DOMAIN items : ~items[n].obj.displayCache[1].makingDisplayList

C22_Clear ==
    rhist.op = "clear" =>
        /\ rhist.outcome = "returned"
        /\ globalLock = "free"
        /\ DOMAIN items = {}
        /\ \A n \in DOMAIN rhist.pre :
               \A h \in listsOf(rhist.pre[n].obj) :
                   h \notin gl.lists /\ gl.deleted[h] = 1

\* C22 witness: clear() on a registry whose item had a compiled list
C22_Witness ==
    /\ rhist.op = "clear" /\ rhist.outcome = "returned"
    /\ \E n \in DOMAIN rhist.pre : listsOf(rhist.pre[n].obj) # {}
    /\ DOMAIN items = {}

\* C27 (as claimed): every display list generated and not deleted is held
\* by an appearance or sub-appearance reachable from the items map.
C27_NoLeakedLists ==
    gl.lists \subseteq UNION {listsOf(items[n].obj) : n \in DOMAIN items}

\* the display caches of an appearance and of its sub-appearances are all
\* marked changed
RECURSIVE AllChanged(_)
AllChanged(a) ==
    /\ \A i \in DOMAIN a.displayCache : a.displayCache[i].changed
    /\ \A i \in DOMAIN a.subAppearances : AllChanged(a.subAppearances[i].app)

\* C23 (as claimed): dirty('all') returns with every registered item marked
\* changed, and dirty(name) on a registered name returns with that item
\* marked changed.
C23_Dirty ==
    rhist.op = "dirty" =>
        /\ rhist.outcome = "returned" \/ rhist.absent
        /\ rhist.name = "all" => \A n \in DOMAIN items : AllChanged(items[n].obj)
        /\ rhist.name \in DOMAIN items => AllChanged(items[rhist.name].obj)

\* C13 (as claimed): setItemConfig(name, v) on a registered item returns and
\* leaves the item with configuration v; getItemConfig(name) returns the
\* item's configuration and changes nothing.
C13_ItemConfig ==
    /\ (rhist.op = "setItemConfig" /\ ~rhist.absent) =>
           /\ rhist.outcome = "returned"
           /\ getConfig(items[rhist.name].obj.item) = rhist.args[1]
    /\ (rhist.op = "getItemConfig" /\ ~rhist.absent) =>
           /\ rhist.outcome = "returned"
           /\ rhist.result = <<getConfig(items[rhist.name].obj.item)>>
           /\ items = rhist.pre

\* C14 (as claimed): after revertAppearance(name) on a registered item the
\* item's useDefaultAppearance is true and the item is marked changed.
C14_RevertAppearance ==
    (rhist.op = "revertAppearance" /\ ~rhist.absent) =>
        /\ rhist.outcome = "returned"
        /\ items[rhist.name].obj.useDefaultAppearance
        /\ AllChanged(items[rhist.name].obj)

\* C15 (as claimed): animate(name, animation, speed) on a registered name
\* returns, and the item then holds the animation, the speed and the
\* registry's animation clock as start time, and is marked changed.
C15_Animate ==
    (rhist.op = "animate" /\ ~rhist.absent) =>
        /\ rhist.outcome = "returned"
        /\ items[rhist.name].obj =
               animated(rhist.pre[rhist.name].obj, rhist.args[1], rhist.args[2], 0)

\* C18: after setColor(name, r, g, b, a) on a registered item the item has
\* useDefaultAppearance false and attributes['color'] equal to the color
\* given, and every display cache of the item is marked changed, so that a
\* draw with the cache's own parameters takes the compiling branch.
C18_SetColor ==
    (rhist.op = "setColor" /\ ~rhist.absent) =>
        LET a == items[rhist.name].obj
        IN  /\ rhist.outcome = "returned"
            /\ ~a.useDefaultAppearance
            /\ a.attributes["color"] = rhist.args[1]
            /\ AllChanged(a)
            /\ \A i \in DOMAIN a.displayCache :
                   needsCompile(a.displayCache[i], a.displayCache[i].displayListParameters)

\* C18 witness: setColor returned on an item whose display list was compiled
\* by an earlier frame
C18_Witness ==
    /\ rhist.op = "setColor" /\ rhist.outcome = "returned"
    /\ rhist.name \in DOMAIN items
    /\ items[rhist.name].obj.displayCache[1].glDisplayList # None
    /\ ~items[rhist.name].obj.displayCache[1].makingDisplayList
    /\ items[rhist.name].obj.attributes["color"] = "rgba2"

\* C19: a step of setAttribute(name, key, value) on a registered item
\* leaves the key absent if the value is None and holding the value
\* otherwise, leaves every other key as it was, and marks the item changed.
C19_SetAttribute ==
    [][(rhist'.op = "setAttribute" /\ rhist'.outcome = "returned"
           /\ rhist'.name \in DOMAIN items) =>
          LET n == rhist'.name
              k == rhist'.args[1]
              v == rhist'.args[2]
          IN  /\ n \in DOMAIN items'
              /\ items'[n].obj.attributes[k] = (IF v = PyNone THEN Absent ELSE v)
              /\ \A j \in AttrKeys \ {k} :
                     items'[n].obj.attributes[j] = items[n].obj.attributes[j]
              /\ AllChanged(items'[n].obj)]_vars

\* C19 witness: setAttribute with None returned on an item that held the
\* key no longer (the key was absent before), with another key set
C19_Witness ==
    /\ rhist.op = "setAttribute" /\ rhist.outcome = "returned"
    /\ rhist.args[2] = PyNone
    /\ rhist.name \in DOMAIN items
    /\ items[rhist.name].obj.attributes[rhist.args[1]] = Absent
    /\ items[rhist.name].obj.attributes["color"] # Absent

----------------------------------------------------------------------------
(* SpecThr: the script thread and the render threads (the Qt loop of      *)
(* _run_app_thread) interleaved.  A thread takes a step of its own where   *)
(* the code lets another thread run in between: a blocking acquire(), a    *)
(* read or write of a global made without the lock, a polling loop.  What  *)
(* a thread does while it holds _globalLock is one step, except where the  *)
(* other thread reads the same data without the lock.                      *)
(* The GLUT branch of the module does not load: its class statement reads  *)
(* the name glinterface (line 1253), which no import binds.                *)

\* the items the script registers in SpecThr
ThrItems == {VectorItem(<<1>>)}

InitThr ==
    /\ IdleGLInit
    /\ IdleCache /\ IdleApp
    /\ gl = GLInit
    /\ vis = VisInit
    /\ items = NoItems
    /\ rhist = RHistInit
    /\ globalLock = "free"
    /\ mod = ModInit
    /\ threads = NoThreads
    /\ script = ScriptIdle
    /\ thist = THistInit

\* the window _current_window names, as an index of mod.windows
Current(m) == m.current_window[1] + 1

\* Thread(target=_run_app_thread).start(): the thread exists from now on
canStart(ts) == \E i \in ThreadIds : ts[i] = "none"

startThread(ts) ==
    LET i == CHOOSE j \in ThreadIds :
                 ts[j] = "none" /\ \A k \in ThreadIds : ts[k] = "none" => j <= k
    IN  [ts EXCEPT ![i] = "start"]

\* _show and _dialog, first statement: the first window is appended and
\* made the current one
withWindow(m) ==
    IF Len(m.windows) = 0
       THEN [m EXCEPT !.windows = <<WindowInfo>>, !.current_window = Some(0)]
       ELSE m

\* the script's history when a call other than shown() and kill() returns
Called(h) ==
    [h EXCEPT !.shownResult = "none", !.killReturned = FALSE, !.dialogReturned = FALSE]

\* show(): acquire; _show(); release.  _show starts a render thread unless
\* _thread_running is set, which the new thread does itself
TShow ==
    /\ script.pc = "idle"
    /\ globalLock = "free"
    /\ ~mod.thread_running => canStart(threads)
    /\ LET m == withWindow(mod)
       IN  mod' = [m EXCEPT !.windows[Current(m)].mode = "shown"]
    /\ threads' = IF mod.thread_running THEN threads ELSE startThread(threads)
    /\ thist' = [Called(thist) EXCEPT !.showing = TRUE]
    /\ UNCHANGED <<items, gl, globalLock, script, notThrVars>>

\* show(True): acquire; _hide(); release
TShowHidden ==
    /\ script.pc = "idle"
    /\ globalLock = "free"
    /\ mod' = IF mod.current_window = Nothing THEN mod
              ELSE [mod EXCEPT !.windows[Current(mod)].mode = "hidden"]
    /\ thist' = [Called(thist) EXCEPT !.showing = FALSE]
    /\ UNCHANGED <<items, gl, globalLock, threads, script, notThrVars>>

\* dialog(), up to the start of the thread; _dialog takes no lock
TDialogStart ==
    /\ script.pc = "idle"
    /\ ~mod.thread_running => canStart(threads)
    /\ mod' = withWindow(mod)
    /\ threads' = IF mod.thread_running THEN threads ELSE startThread(threads)
    /\ script' = [script EXCEPT !.pc = "dialog_mode"]
    /\ thist' = [Called(thist) EXCEPT !.dismissed = FALSE]
    /\ UNCHANGED <<items, gl, globalLock, notThrVars>>

\* dialog(): _windows[_current_window].mode = 'dialog'
TDialogSetMode ==
    /\ script.pc = "dialog_mode"
    /\ mod' = [mod EXCEPT !.windows[Current(mod)].mode = "dialog"]
    /\ script' = [script EXCEPT !.pc = "dialog_wait"]
    /\ UNCHANGED <<items, gl, globalLock, threads, thist, notThrVars>>

\* dialog(): the polling loop ends when the mode is no longer 'dialog'
TDialogReturn ==
    /\ script.pc = "dialog_wait"
    /\ mod.windows[Current(mod)].mode # "dialog"
    /\ script' = ScriptIdle
    /\ thist' = [thist EXCEPT !.dialogReturned = TRUE]
    /\ UNCHANGED <<items, gl, globalLock, mod, threads, notThrVars>>

\* kill(): _quit = True
TKillStart ==
    /\ script.pc = "idle"
    /\ mod' = [mod EXCEPT !.quit = TRUE]
    /\ script' = [script EXCEPT !.pc = "kill_wait"]
    /\ thist' = [Called(thist) EXCEPT
                    !.showing = FALSE,
                    !.killSaw = \E i \in ThreadIds : threads[i] # "none"]
    /\ UNCHANGED <<items, gl, globalLock, threads, notThrVars>>

\* kill(): `while _thread_running` ends
TKillReturn ==
    /\ script.pc = "kill_wait"
    /\ ~mod.thread_running
    /\ script' = ScriptIdle
    /\ thist' = [thist EXCEPT !.killReturned = thist.killSaw]
    /\ UNCHANGED <<items, gl, globalLock, mod, threads, notThrVars>>

\* shown()
TShown ==
    /\ script.pc = "idle"
    /\ globalLock = "free"
    /\ LET res == /\ mod.thread_running
                  /\ mod.current_window # Nothing
                  /\ mod.windows[Current(mod)].mode \in {"shown", "dialog"}
       IN  thist' = [Called(thist) EXCEPT
                         !.shownResult = IF res THEN "True" ELSE "False"]
    /\ UNCHANGED <<items, gl, globalLock, mod, threads, script, notThrVars>>

\* add(name, item)
TAdd(name, item) ==
    /\ script.pc = "idle"
    /\ globalLock = "free"
    /\ gl' = IF name \in DOMAIN items THEN destroyAppGL(items[name].obj, gl) ELSE gl
    /\ items' = [n \in DOMAIN items \cup {name} |->
                    IF n = name
                       THEN [ref |-> freshRef(items), obj |-> VisAppearance(item, name)]
                       ELSE items[n]]
    /\ thist' = Called(thist)
    /\ UNCHANGED <<globalLock, mod, threads, script, notThrVars>>

\* remove(name), up to self.items[name].destroy(): the entry is destroyed
\* and still in the map; KeyError for an unregistered name, the lock kept
TRemoveDestroy(name) ==
    /\ script.pc = "idle"
    /\ globalLock = "free"
    /\ globalLock' = "script"
    /\ IF name \in DOMAIN items
          THEN /\ gl' = destroyAppGL(items[name].obj, gl)
               /\ items' = [items EXCEPT ![name].obj = destroyApp(@)]
               /\ script' = [pc |-> "remove_del", name |-> name]
          ELSE UNCHANGED <<gl, items, script>>
    /\ thist' = Called(thist)
    /\ UNCHANGED <<mod, threads, notThrVars>>

\* remove(name): del self.items[name]; release
TRemoveDelete ==
    /\ script.pc = "remove_del"
    /\ items' = [n \in DOMAIN items \ {script.name} |-> items[n]]
    /\ globalLock' = "free"
    /\ script' = ScriptIdle
    /\ UNCHANGED <<gl, mod, threads, thist, notThrVars>>

\* clear()
TClear ==
    /\ script.pc = "idle"
    /\ globalLock = "free"
    /\ gl' = destroyAllGL(items, DOMAIN items, gl)
    /\ items' = NoItems
    /\ thist' = Called(thist)
    /\ UNCHANGED <<globalLock, mod, threads, script, notThrVars>>

\* setAttribute(name, attr, value); KeyError for an unregistered name, the
\* lock kept
TSetAttribute(name, attr, value) ==
    /\ script.pc = "idle"
    /\ globalLock = "free"
    /\ IF name \in DOMAIN items
          THEN /\ items' = [items EXCEPT ![name].obj = setAttributeChange(@, attr, value)]
               /\ globalLock' = "free"
          ELSE /\ items' = items
               /\ globalLock' = "script"
    /\ thist' = Called(thist)
    /\ UNCHANGED <<gl, mod, threads, script, notThrVars>>

\* lock(), called by the script
TLock ==
    /\ script.pc = "idle"
    /\ globalLock = "free"
    /\ globalLock' = "script"
    /\ thist' = [Called(thist) EXCEPT !.locked = TRUE]
    /\ UNCHANGED <<items, gl, mod, threads, script, notThrVars>>

\* unlock(), called by the script after lock() (or after a call that raised
\* and kept the lock)
TUnlock ==
    /\ script.pc = "idle"
    /\ globalLock = "script"
    /\ globalLock' = "free"
    /\ thist' = [Called(thist) EXCEPT !.locked = FALSE]
    /\ UNCHANGED <<items, gl, mod, threads, script, notThrVars>>

\* the module operations that begin with _globalLock.acquire()
LockingOps == {"show", "shown", "add", "remove", "clear", "setAttribute"}

\* a call of such an operation by the script while the script itself holds
\* _globalLock: a threading.Lock is not reentrant, acquire() waits for a
\* release() that only this thread would make
TCallLocked(op) ==
    /\ script.pc = "idle"
    /\ globalLock = "script"
    /\ script' = [pc |-> "acquire", name |-> op]
    /\ thist' = Called(thist)
    /\ UNCHANGED <<items, gl, globalLock, mod, threads, notThrVars>>

RECURSIVE displayItems(_, _, _)
\* VisualizationPlugin.display: update, swapDrawConfig, draw, swapDrawConfig
\* on every entry of items, at animationTime 0
displayItems(its, names, g) ==
    IF names = {} THEN [items |-> its, gl |-> g]
    ELSE LET n  == CHOOSE m \in names : TRUE
             a1 == swapDrawConfig(update(its[n].obj, 0))
             r  == draw(a1, g)
             a2 == swapDrawConfig(r.app)
         IN  displayItems([its EXCEPT ![n].obj = a2], names \ {n}, r.gl)

\* one frame: display() runs, called by a thread that holds the lock or not
Frame(locked) ==
    LET r == displayItems(items, DOMAIN items, gl)
    IN  /\ r.gl.next <= MaxLists + 1
        /\ items' = r.items
        /\ gl' = r.gl
        /\ thist' = [thist EXCEPT
                        !.lastFrame = IF locked THEN "locked" ELSE "unlocked",
                        !.torn = script.pc = "remove_del"]

\* _run_app_thread: _thread_running = True; _GLBackend.initialize(...)
RStart(i) ==
    /\ threads[i] = "start"
    /\ mod' = [mod EXCEPT !.thread_running = TRUE]
    /\ threads' = [threads EXCEPT ![i] = "loop"]
    /\ UNCHANGED <<items, gl, globalLock, script, thist, notThrVars>>

\* while not _quit
RLoopTest(i) ==
    /\ threads[i] = "loop"
    /\ threads' = [threads EXCEPT ![i] = IF mod.quit THEN "closing" ELSE "acquire"]
    /\ UNCHANGED <<items, gl, globalLock, mod, script, thist, notThrVars>>

\* _globalLock.acquire(), and the first test of the loop over _windows: a
\* window that is not hidden gets its GL window
RAcquire(i) ==
    /\ threads[i] = "acquire"
    /\ globalLock = "free"
    /\ globalLock' = "render"
    /\ mod' = IF Len(mod.windows) # 0 /\ ~mod.windows[1].window
                 /\ mod.windows[1].mode # "hidden"
                 THEN [mod EXCEPT !.windows[1].window = TRUE]
                 ELSE mod
    /\ threads' = [threads EXCEPT ![i] = IF Len(mod.windows) = 0 THEN "events" ELSE "modes"]
    /\ UNCHANGED <<items, gl, script, thist, notThrVars>>

\* the tests on w.mode.  'dialog': the _MyDialog is made, the lock released
\* and exec_() entered.  'shown': the _MyWindow is made and shown.  'hidden':
\* a visible window is hidden and dropped.  _MyDialog and _MyWindow read
\* w.window: with no GL window they raise AttributeError, and the thread ends
\* with the lock held and _thread_running set
RModes(i) ==
    /\ threads[i] = "modes"
    /\ LET w == mod.windows[1]
       IN  IF w.guidata = "None" /\ w.mode \in {"dialog", "shown"} /\ ~w.window
              THEN /\ threads' = [threads EXCEPT ![i] = "crashed"]
                   /\ UNCHANGED <<mod, globalLock>>
           ELSE IF w.mode = "dialog" /\ w.guidata = "None"
              THEN /\ mod' = [mod EXCEPT !.windows[1].guidata = "dialog",
                                         !.windows[1].visible = TRUE]
                   /\ globalLock' = "free"
                   /\ threads' = [threads EXCEPT ![i] = "exec"]
           ELSE LET w1 == IF w.mode = "shown" /\ w.guidata = "None"
                             THEN [w EXCEPT !.guidata = "window", !.visible = FALSE]
                             ELSE w
                    w2 == IF w1.mode = "shown" /\ ~w1.visible
                             THEN [w1 EXCEPT !.visible = TRUE] ELSE w1
                    w3 == IF w2.mode = "hidden" /\ w2.guidata # "None" /\ w2.visible
                             THEN [w2 EXCEPT !.visible = FALSE, !.window = FALSE,
                                             !.guidata = "None"]
                             ELSE w2
                IN  /\ mod' = [mod EXCEPT !.windows[1] = w3]
                    /\ globalLock' = globalLock
                    /\ threads' = [threads EXCEPT ![i] = "events"]
    /\ UNCHANGED <<items, gl, script, thist, notThrVars>>

\* w.guidata.exec_() paints the dialog's GL widget: display() runs, and this
\* thread released the lock before exec_()
RDialogFrame(i) ==
    /\ threads[i] = "exec"
    /\ Frame(FALSE)
    /\ UNCHANGED <<globalLock, mod, threads, script, notThrVars>>

\* the user presses OK or closes the dialog: accept or reject, exec_() returns
RDialogAccept(i) ==
    /\ threads[i] = "exec"
    /\ threads' = [threads EXCEPT ![i] = "reacquire"]
    /\ thist' = [thist EXCEPT !.showing = FALSE, !.dismissed = TRUE]
    /\ UNCHANGED <<items, gl, globalLock, mod, script, notThrVars>>

\* a mutant of afterExec: the mode is set back to 'shown'
afterExec_shown(w) ==
    [w EXCEPT !.mode = "shown", !.window = FALSE, !.guidata = "None", !.visible = FALSE]

\* the assignments after exec_(): w.guidata = None; w.window = None;
\* w.mode = 'hidden'
afterExec(w) ==
    [w EXCEPT !.mode = "hidden", !.window = FALSE, !.guidata = "None", !.visible = FALSE]

\* after exec_(): acquire, and those assignments
RReacquire(i) ==
    /\ threads[i] = "reacquire"
    /\ globalLock = "free"
    /\ globalLock' = "render"
    /\ mod' = [mod EXCEPT !.windows[1] = afterExec(@)]
    /\ threads' = [threads EXCEPT ![i] = "events"]
    /\ UNCHANGED <<items, gl, script, thist, notThrVars>>

\* _GLBackend.app.processEvents() with nothing to deliver; release
REventsNone(i) ==
    /\ threads[i] = "events"
    /\ globalLock' = "free"
    /\ threads' = [threads EXCEPT ![i] = "loop"]
    /\ UNCHANGED <<items, gl, mod, script, thist, notThrVars>>

\* processEvents() delivers a paint event to the visible window: display()
\* runs, and this thread holds the lock; release
REventsPaint(i) ==
    /\ threads[i] = "events"
    /\ Len(mod.windows) # 0
    /\ mod.windows[1].guidata # "None" /\ mod.windows[1].visible
    /\ Frame(TRUE)
    /\ globalLock' = "free"
    /\ threads' = [threads EXCEPT ![i] = "loop"]
    /\ UNCHANGED <<mod, script, notThrVars>>

\* processEvents() delivers the user's close of the window:
\* _MyWindow.closeEvent sets the mode to 'hidden' and hides itself; release
REventsClose(i) ==
    /\ threads[i] = "events"
    /\ Len(mod.windows) # 0
    /\ mod.windows[1].guidata = "window" /\ mod.windows[1].visible
    /\ mod' = [mod EXCEPT !.windows[1].mode = "hidden", !.windows[1].visible = FALSE]
    /\ globalLock' = "free"
    /\ threads' = [threads EXCEPT ![i] = "loop"]
    /\ thist' = [thist EXCEPT !.showing = FALSE, !.dismissed = TRUE]
    /\ UNCHANGED <<items, gl, script, notThrVars>>

\* after the loop: w.vis.clear() for the window, which acquires the lock
RClear(i) ==
    /\ threads[i] = "closing"
    /\ globalLock = "free"
    /\ gl' = destroyAllGL(items, DOMAIN items, gl)
    /\ items' = NoItems
    /\ threads' = [threads EXCEPT ![i] = "stop"]
    /\ UNCHANGED <<globalLock, mod, script, thist, notThrVars>>

\* _thread_running = False; the thread returns
RStop(i) ==
    /\ threads[i] = "stop"
    /\ mod' = [mod EXCEPT !.thread_running = FALSE]
    /\ threads' = [threads EXCEPT ![i] = "none"]
    /\ UNCHANGED <<items, gl, globalLock, script, thist, notThrVars>>

\* the steps of the render threads
NextRender ==
    \E i \in ThreadIds :
        \/ RStart(i)
        \/ RLoopTest(i)
        \/ RAcquire(i)
        \/ RModes(i)
        \/ RDialogFrame(i)
        \/ RDialogAccept(i)
        \/ RReacquire(i)
        \/ REventsNone(i)
        \/ REventsPaint(i)
        \/ REventsClose(i)
        \/ RClear(i)
        \/ RStop(i)

\* the script's calls that act on the window and the lock
NextWindowCalls ==
    \/ TShow
    \/ TShowHidden
    \/ TDialogStart
    \/ TDialogSetMode
    \/ TDialogReturn
    \/ TKillStart
    \/ TKillReturn
    \/ TShown
    \/ TLock
    \/ TUnlock
    \/ \E op \in LockingOps : TCallLocked(op)

\* the script's calls that act on the registry
NextRegistryCalls ==
    \/ \E name \in AddNames, item \in ThrItems : TAdd(name, item)
    \/ \E name \in Names : TRemoveDestroy(name)
    \/ TRemoveDelete
    \/ TClear
    \/ \E name \in Names : TSetAttribute(name, "size", "a")

NextThr == NextWindowCalls \/ NextRegistryCalls \/ NextRender

NextWin == NextWindowCalls \/ NextRender

\* SpecWin: SpecThr with a script that makes no registry call, so that the
\* registry stays empty
SpecWin == InitThr /\ [][NextWin]_vars

SpecThr == InitThr /\ [][NextThr]_vars

\* C3 (as claimed): every frame runs with the global lock held by the thread
\* that draws it, in shown and in dialog mode, and no frame draws an entry
\* that is in the items map and already destroyed.
C3_FrameHoldsLock ==
    thist.lastFrame # "none" => (thist.lastFrame = "locked" /\ ~thist.torn)

\* C9 (as claimed): when a kill() that was called with a render thread in
\* existence returns, no render thread is left and the registry is empty.
C9_KillCompletes ==
    thist.killReturned =>
        /\ \A i \in ThreadIds : threads[i] = "none"
        /\ items = NoItems

\* C10 (as claimed): once show() has returned, and until show(True), a close
\* by the user or kill(), shown() returns True.
C10_ShownAfterShow ==
    (thist.showing /\ thist.shownResult # "none") => thist.shownResult = "True"

\* C11 (as claimed): a module operation the script calls between lock() and
\* unlock() is never left waiting for the lock the script itself holds.
C11_CallUnderLock ==
    ~(thist.locked /\ script.pc = "acquire" /\ globalLock = "script")

\* C29 (as claimed): kill() is never left waiting for a render thread that
\* cannot end: while kill() polls _thread_running, no render thread is
\* waiting for the lock that the caller of kill() took with lock().
C29_KillReturns ==
    ~(/\ script.pc = "kill_wait"
      /\ mod.thread_running
      /\ thist.locked /\ globalLock = "script"
      /\ \E i \in ThreadIds : threads[i] \in {"acquire", "closing"})

\* C37 (as claimed): at most one render thread exists at any time.
C37_OneRenderThread ==
    Cardinality({i \in ThreadIds : threads[i] \notin {"none", "crashed"}}) <= 1

\* C12: when dialog() has returned, the user has closed the dialog (or the
\* window) since the call, the render thread has moved the mode away from
\* 'dialog', and the mode is 'hidden'.
C12_DialogReturn ==
    thist.dialogReturned =>
        /\ thist.dismissed
        /\ mod.windows[Current(mod)].mode = "hidden"

\* C12 witness: dialog() returned after a dialog that was open and drew a
\* frame
C12_Witness ==
    /\ thist.dialogReturned
    /\ thist.dismissed
    /\ thist.lastFrame = "unlocked"
    /\ mod.windows[Current(mod)].mode = "hidden"

----------------------------------------------------------------------------
(* SpecDisabled: the module-level functions while the module has no        *)
(* VisualizationPlugin (_vis is None) and no window.  Every convenience    *)
(* alias starts with `if _vis==None: return`; setPlugin and pushPlugin     *)
(* test _vis only on the paths that need it.                               *)

MaxPlugins == 2

\* the plugins the script passes to setPlugin and pushPlugin
Plugins == {"p1", "p2"}

\* the convenience aliases for the methods of VisualizationPlugin
AliasCalls ==
    {"clear", "add", "dirty", "animate", "pauseAnimation", "stepAnimation",
     "animationTime", "remove", "getItemConfig", "setItemConfig", "hideLabel",
     "hide", "setAppearance", "setAttribute", "revertAppearance", "setColor"}

\* the globals as lines 204-208 set them, with no VisualizationPlugin made
InitDisabled ==
    /\ IdleGLInit
    /\ IdleCache /\ IdleApp
    /\ gl = GLInit
    /\ vis = VisInit
    /\ items = NoItems
    /\ rhist = RHistInit
    /\ globalLock = "free"
    /\ mod = [ModInit EXCEPT !.vis = FALSE, !.plugins = <<>>]
    /\ threads = NoThreads
    /\ script = ScriptIdle
    /\ thist = THistInit

\* the record of a module-level call: `pre` holds _frontend.plugins and
\* the lock as the call found them
ModuleCall(op, outcome, args) ==
    [RHistInit EXCEPT !.op = op, !.outcome = outcome, !.args = args,
                      !.pre = <<mod.plugins, globalLock>>]

\* a convenience alias called while _vis is None: it returns at once (with
\* _vis set the call is the method's, see SpecReg)
AliasCall(op) ==
    /\ ~mod.vis
    /\ rhist' = ModuleCall(op, "returned", <<>>)
    /\ UNCHANGED <<gl, items, globalLock, notRegVars>>

\* kill() while _vis is None: prints "Visualization disabled" and returns
\* (with _vis set the call is _kill, see SpecThr)
KillCall ==
    /\ ~mod.vis
    /\ rhist' = ModuleCall("kill", "returned", <<>>)
    /\ UNCHANGED <<gl, items, globalLock, notRegVars>>

\* _onFrontendChange: how it ends.  With a window made it calls
\* _windows[_current_window].setPlugin(frontend), an unbound name
onFrontendChange(m) ==
    IF m.current_window = Nothing THEN "returned"
    ELSE IF m.windows[Current(m)].window THEN "NameError"
    ELSE "returned"

\* setPlugin(plugin): None stands for the visualization itself
SetPlugin(plugin) ==
    /\ IF plugin = PyNone /\ ~mod.vis
          THEN /\ rhist' = ModuleCall("setPlugin", "RuntimeError", <<plugin>>)
               /\ mod' = mod
          ELSE /\ mod' = [mod EXCEPT !.plugins =
                                        <<IF plugin = PyNone THEN "vis" ELSE plugin>>]
               /\ rhist' = ModuleCall("setPlugin", onFrontendChange(mod), <<plugin>>)
    /\ UNCHANGED <<gl, items, globalLock, cacheVars, appVars, initVars, threads, script, thist, vis>>

\* pushPlugin(plugin): an empty frontend gets the visualization first
PushPlugin(plugin) ==
    /\ Len(mod.plugins) < MaxPlugins
    /\ IF Len(mod.plugins) = 0 /\ ~mod.vis
          THEN /\ rhist' = ModuleCall("pushPlugin", "RuntimeError", <<plugin>>)
               /\ mod' = mod
          ELSE /\ mod' = [mod EXCEPT !.plugins =
                                        (IF Len(@) = 0 THEN <<"vis">> ELSE @) \o <<plugin>>]
               /\ rhist' = ModuleCall("pushPlugin", onFrontendChange(mod), <<plugin>>)
    /\ UNCHANGED <<gl, items, globalLock, cacheVars, appVars, initVars, threads, script, thist, vis>>

NextDisabled ==
    \/ \E op \in AliasCalls : AliasCall(op)
    \/ KillCall
    \/ \E plugin \in Plugins \cup {PyNone} : SetPlugin(plugin)
    \/ \E plugin \in Plugins : PushPlugin(plugin)
    \/ Lock
    \/ Unlock

SpecDisabled == InitDisabled /\ [][NextDisabled]_vars

----------------------------------------------------------------------------
(* SpecLabel and SpecClock: the VisualizationPlugin's own fields with an   *)
(* empty registry: the labels under addLabel and display, and animate and  *)
(* animationTime under idlefunc and the animation-clock calls.  Positions  *)
(* are points of a line in units of 0.05, so that the distances 0, 0.05,   *)
(* 0.1 and 0.15 occur.                                                     *)

\* label entries addLabel keeps, and texts one entry holds
MaxLabels == 2
\* the largest position of a label, in units of 0.05
MaxPoint == 3
\* the largest value of the animation clock
MaxClock == 5

\* the text of a label (addLabel does not look at it)
LabelTexts == {"a"}

LabelPoints == 0..MaxPoint

LabelColors == {"black", "red"}

\* the increments idlefunc sees (time.time() - oldt) and stepAnimation gets
ClockSteps == {1, 2}

InitPlug ==
    /\ IdleGLInit
    /\ IdleCache /\ IdleApp /\ IdleThr
    /\ gl = GLInit
    /\ vis = VisInit
    /\ items = NoItems
    /\ globalLock = "free"
    /\ rhist = RHistInit

\* the record of a call on the plugin: `pre` holds what the call found,
\* the labels for addLabel and the clock for the calls on the clock
PlugCall(op, outcome, args, pre) ==
    [RHistInit EXCEPT !.op = op, !.outcome = outcome, !.args = args, !.pre = pre]

AddLabel(text, point, color) ==
    /\ LET new == addLabel(vis.labels, text, point, color)
       IN  /\ Len(new) <= MaxLabels
           /\ \A i \in DOMAIN new : Len(new[i].textList) <= MaxLabels
           /\ vis' = [vis EXCEPT !.labels = new]
    /\ rhist' = PlugCall("addLabel", "returned", <<text, point, color>>, <<vis.labels>>)
    /\ UNCHANGED <<gl, items, globalLock, cacheVars, appVars, initVars, thrVars>>

\* display() with an empty registry: the labels of the last frame are dropped
DisplayEmpty ==
    /\ items = NoItems
    /\ vis' = [vis EXCEPT !.labels = <<>>]
    /\ rhist' = PlugCall("display", "returned", <<>>, <<>>)
    /\ UNCHANGED <<gl, items, globalLock, cacheVars, appVars, initVars, thrVars>>

\* idlefunc, dt being time.time() - oldt
Idlefunc(dt) ==
    /\ vis.animate => vis.animationTime + dt <= MaxClock
    /\ vis' = [vis EXCEPT !.animationTime = IF vis.animate THEN @ + dt ELSE @]
    /\ rhist' = PlugCall("idlefunc", "returned", <<dt>>, <<vis.animationTime>>)
    /\ UNCHANGED <<gl, items, globalLock, cacheVars, appVars, initVars, thrVars>>

\* pauseAnimation(paused)
PauseAnimation(paused) ==
    /\ globalLock = "free"
    /\ vis' = [vis EXCEPT !.animate = ~paused]
    /\ rhist' = PlugCall("pauseAnimation", "returned", <<paused>>, <<vis.animationTime>>)
    /\ UNCHANGED <<gl, items, globalLock, cacheVars, appVars, initVars, thrVars>>

\* stepAnimation(amount)
StepAnimation(amount) ==
    /\ globalLock = "free"
    /\ vis.animationTime + amount <= MaxClock
    /\ vis' = [vis EXCEPT !.animationTime = @ + amount]
    /\ rhist' = PlugCall("stepAnimation", "returned", <<amount>>, <<vis.animationTime>>)
    /\ UNCHANGED <<gl, items, globalLock, cacheVars, appVars, initVars, thrVars>>

\* animationTime(newtime), newtime Some(value) or Nothing for None: the alias calls
\* _vis.animationTime(newtime), and the attribute animationTime of the
\* instance is the number __init__ stored, which is not callable
AnimationTime(newtime) ==
    /\ rhist' = PlugCall("animationTime", "TypeError", <<newtime>>, <<vis.animationTime>>)
    /\ UNCHANGED <<gl, items, globalLock, vis, cacheVars, appVars, initVars, thrVars>>

NextLabel ==
    \/ \E text \in LabelTexts, point \in LabelPoints, color \in LabelColors :
           AddLabel(text, point, color)
    \/ DisplayEmpty

SpecLabel == InitPlug /\ [][NextLabel]_vars

NextClock ==
    \/ \E dt \in ClockSteps : Idlefunc(dt)
    \/ \E paused \in BOOLEAN : PauseAnimation(paused)
    \/ \E amount \in ClockSteps : StepAnimation(amount)
    \/ \E newtime \in {Some(t) : t \in 0..MaxClock} \cup {Nothing} : AnimationTime(newtime)

SpecClock == InitPlug /\ [][NextClock]_vars

\* C21: addLabel appends the text to an entry of the frame's labels, keeping
\* that entry's position, exactly if some entry has an equal color and a
\* position at distance less than 0.1 from the new one (the first such
\* entry gets it, every other entry stays); otherwise it appends a new
\* entry, so that no entry 0.1 or more away gets the text.
C21_AddLabel ==
    rhist.op = "addLabel" =>
        LET old   == rhist.pre[1]
            text  == rhist.args[1]
            point == rhist.args[2]
            color == rhist.args[3]
            near  == {i \in DOMAIN old :
                         old[i].color = color
                         /\ distance(old[i].point, point) < LabelMergeDistance}
        IN  IF near # {}
               THEN /\ Len(vis.labels) = Len(old)
                    /\ \E i \in near :
                          /\ \A k \in near : i <= k
                          /\ vis.labels[i] = [old[i] EXCEPT !.textList = Append(@, text)]
                          /\ \A k \in DOMAIN old \ {i} : vis.labels[k] = old[k]
            ELSE vis.labels = Append(old, [point |-> point, textList |-> <<text>>,
                                           color |-> color])

\* C21 witness: a label 0.05 away from an entry was merged into it, and the
\* next label, of the same color and exactly 0.1 away from that entry,
\* became an entry of its own
C21_Witness ==
    /\ rhist.op = "addLabel"
    /\ rhist.args[2] = 2
    /\ Len(rhist.pre[1]) = 1
    /\ Len(vis.labels) = 2
    /\ vis.labels[1].point = 0 /\ Len(vis.labels[1].textList) = 2
    /\ vis.labels[2].point = 2 /\ Len(vis.labels[2].textList) = 1
    /\ vis.labels[1].color = vis.labels[2].color

\* C25 (as claimed): animationTime(newtime) returns, having set the clock to
\* newtime; animationTime() returns the clock and changes nothing; and an
\* idlefunc while paused leaves the clock as it was.
C25_AnimationClock ==
    /\ rhist.op = "animationTime" =>
           /\ rhist.outcome = "returned"
           /\ rhist.args[1] # Nothing => vis.animationTime = rhist.args[1][1]
           /\ rhist.args[1] = Nothing =>
                  rhist.result = <<vis.animationTime>> /\ vis.animationTime = rhist.pre[1]
    /\ (rhist.op = "idlefunc" /\ ~vis.animate) => vis.animationTime = rhist.pre[1]

----------------------------------------------------------------------------
(* SpecOverride: one VisAppearance whose item has an appearance of its own *)
(* and a drawGL method (a rigid object), under setAppearance, setColor,    *)
(* hide and draw.  The appearance of the item is one of "orig" (its own),  *)
(* "custom" (the customAppearance) or a color.                             *)

\* an item with the methods appearance() and drawGL()
ObjectItem ==
    [kind |-> "RigidObject", q |-> <<>>, members |-> 0, robot |-> FALSE,
     appearance |-> "orig"]

\* hasattr(self, 'oldAppearance')
hasOld(a) == "oldAppearance" \in DOMAIN a

\* self.oldAppearance = v
withOld(a, v) ==
    [k \in DOMAIN a \cup {"oldAppearance"} |-> IF k = "oldAppearance" THEN v ELSE a[k]]

\* draw(), the block under "set appearance": the first override clones the
\* item's appearance, then the custom appearance or the color is applied
setAppearanceBlock(a) ==
    IF a.useDefaultAppearance THEN a
    ELSE LET a1 == IF hasOld(a) THEN a ELSE withOld(a, a.item.appearance)
         IN  [a1 EXCEPT !.item.appearance =
                            IF a.customAppearance # None THEN "custom"
                            ELSE IF a.attributes["color"] # Absent
                                    THEN a.attributes["color"]
                            ELSE @]

\* draw(), the block under "revert appearance"
revertBlock(a) ==
    IF a.useDefaultAppearance THEN a
    ELSE [a EXCEPT !.item.appearance = a.oldAppearance]

InitOverride ==
    /\ IdleGLInit
    /\ IdleCache /\ IdleReg /\ IdleThr /\ globalLock = "free"
    /\ gl = GLInit
    /\ vis = VisInit
    /\ app = VisAppearance(ObjectItem, "x")
    /\ ahist = AHistInit

\* setAppearance(name, appearance), on the appearance of the name
OSetAppearance(appearance) ==
    /\ app' = setAppearanceChange(app, appearance)
    /\ ahist' = [AHistInit EXCEPT !.event = "setAppearance"]
    /\ UNCHANGED <<gl, notAppVars>>

\* setColor(name, r, g, b, a), on the appearance of the name
OSetColor(color) ==
    /\ app' = setColorChange(app, color)
    /\ ahist' = [AHistInit EXCEPT !.event = "setColor"]
    /\ UNCHANGED <<gl, notAppVars>>

\* hide(name, hidden), on the appearance of the name
OHide(hidden) ==
    /\ app' = hideChange(app, hidden)
    /\ ahist' = [AHistInit EXCEPT !.event = "hide"]
    /\ UNCHANGED <<gl, notAppVars>>

\* draw() of an item with drawGL: item.drawGL() returns, or raises
ODraw(raises) ==
    /\ IF app.hidden
          THEN /\ ~raises
               /\ app' = app
               /\ ahist' = [AHistInit EXCEPT !.event = "drawHidden"]
          ELSE IF raises
          THEN /\ app' = setAppearanceBlock(app)
               /\ ahist' = [AHistInit EXCEPT !.event = "drawRaised"]
          ELSE /\ app' = revertBlock(setAppearanceBlock(app))
               /\ ahist' = [AHistInit EXCEPT !.event = "draw"]
    /\ UNCHANGED <<gl, notAppVars>>

NextOverride ==
    \/ OSetAppearance(1)
    \/ \E color \in Colors : OSetColor(color)
    \/ \E hidden \in BOOLEAN : OHide(hidden)
    \/ \E raises \in BOOLEAN : ODraw(raises)

SpecOverride == InitOverride /\ [][NextOverride]_vars

\* C26 (as claimed): when draw() exits, by returning or by an exception of
\* the drawing, the item has its original appearance.
C26_AppearanceRestored ==
    ahist.event \in {"draw", "drawRaised", "drawHidden"} =>
        app.item.appearance = ObjectItem.appearance

----------------------------------------------------------------------------
(* SpecIds: SpecWin with the calls on window ids, createWindow, setWindow   *)
(* and getWindow.  _globalLock is a threading.Lock, which has the methods  *)
(* acquire and release and no method lock or unlock.                       *)

\* the largest id the script passes to setWindow
MaxWindowId == 1

\* the record of a call on window ids: `pre` holds _current_window as the
\* call found it
IdCall(op, outcome, args, result) ==
    [RHistInit EXCEPT !.op = op, !.outcome = outcome, !.args = args,
                      !.result = result, !.pre = <<mod.current_window>>]

\* createWindow(name): the first statement, _globalLock.lock(), raises
CreateWindow ==
    /\ script.pc = "idle"
    /\ rhist' = IdCall("createWindow", "AttributeError", <<>>, <<>>)
    /\ UNCHANGED <<items, gl, globalLock, thrVars, cacheVars, appVars, initVars, vis>>

\* setWindow(id): the assertion, the test for the current window, and then
\* _globalLock.lock()
SetWindow(id) ==
    /\ script.pc = "idle"
    /\ rhist' = IdCall("setWindow",
                       IF ~(id >= 0 /\ id < Len(mod.windows)) THEN "AssertionError"
                       ELSE IF Some(id) = mod.current_window THEN "returned"
                       ELSE "AttributeError",
                       <<id>>, <<>>)
    /\ UNCHANGED <<items, gl, globalLock, thrVars, cacheVars, appVars, initVars, vis>>

\* getWindow()
GetWindow ==
    /\ script.pc = "idle"
    /\ rhist' = IdCall("getWindow", "returned", <<>>,
                       <<IF mod.current_window = Nothing THEN -1
                         ELSE mod.current_window[1]>>)
    /\ UNCHANGED <<items, gl, globalLock, thrVars, cacheVars, appVars, initVars, vis>>

NextIds ==
    \/ CreateWindow
    \/ \E id \in 0..MaxWindowId : SetWindow(id)
    \/ GetWindow

SpecIds == InitThr /\ [][NextWin \/ NextIds]_vars

\* C24 (as claimed): createWindow returns the id of the window it appended,
\* one less than the number of windows, and makes it the current window;
\* getWindow returns the current window, or -1 if there is none; setWindow
\* with the id of a window returns with that window the current one.
C24_WindowIds ==
    /\ rhist.op = "createWindow" =>
           /\ rhist.outcome = "returned"
           /\ rhist.result = <<Len(mod.windows) - 1>>
           /\ mod.current_window = Some(Len(mod.windows) - 1)
    /\ rhist.op = "getWindow" =>
           /\ rhist.outcome = "returned"
           /\ rhist.result = <<IF rhist.pre[1] = Nothing THEN -1 ELSE rhist.pre[1][1]>>
    /\ (rhist.op = "setWindow" /\ rhist.outcome # "AssertionError") =>
           /\ rhist.outcome = "returned"
           /\ mod.current_window = Some(rhist.args[1])

----------------------------------------------------------------------------
(* SpecFrameAnim: frames over animated items.  The animation is set by the *)
(* method animate of the class (VisualizationPlugin.animate(_vis, ...)),   *)
(* which the instance attribute of the same name hides from _vis.animate;  *)
(* idlefunc advances the clock between frames.                             *)

\* VisualizationPlugin.animate, the method: animation, start time and speed
\* are stored and the item is marked changed
AnimateMethod(name, animation, speed) ==
    /\ globalLock = "free"
    /\ LookupCall("animateMethod", name, <<animation, speed>>,
                  animated(items[name].obj, animation, speed, vis.animationTime))

\* the trajectories animate is called with: from <<1>> to any configuration
\* and back
FrameAnimations == {<<<<1>>, b, <<1>>>> : b \in Configs}

NextFrameAnim ==
    \/ \E name \in AddNames, item \in RegItems : Add(name, item, FALSE)
    \/ \E name \in AddNames, animation \in FrameAnimations : AnimateMethod(name, animation, 1)
    \/ \E name \in AddNames, hidden \in {"True", "False"} : HideLabel(name, hidden)
    \/ Idlefunc(1)
    \/ \E order \in UNION {Orders(names) : names \in SUBSET Names} : Display(order)

SpecFrameAnim == InitFrame /\ [][NextFrameAnim]_vars

\* the configuration an item is drawn in at clock t: the animated one if
\* update() and swapDrawConfig() have run before draw()
drawnItem(a, t) == swapDrawConfig(update(a, t)).item

\* C28: when a frame completes, the loop body has run for every registered
\* item, every item has the configuration it had before the frame and no
\* widget reference, and the labels are those of this frame alone: no text
\* occurs twice, and the label of a visible vector stands where the item
\* was drawn, at its animated configuration for the frame's clock.
C28_FrameSteps ==
    (rhist.op = "display" /\ rhist.outcome = "returned") =>
        /\ rhist.result[1] = DOMAIN items
        /\ \A n \in DOMAIN items :
               /\ items[n].obj.item = rhist.pre[n].obj.item
               /\ ~items[n].obj.widget
               /\ (items[n].obj.item.kind = "Vector3" /\ ~items[n].obj.hidden
                     /\ items[n].obj.attributes["text_hidden"] # "True") =>
                      \E i \in DOMAIN vis.labels :
                          /\ \E j \in DOMAIN vis.labels[i].textList :
                                 vis.labels[i].textList[j] = n
                          /\ LET q == drawnItem(rhist.pre[n].obj, vis.animationTime).q
                             IN  vis.labels[i].point = IF q = <<>> THEN 0 ELSE q[1]
        /\ \A i, k \in DOMAIN vis.labels :
               \A j \in DOMAIN vis.labels[i].textList, l \in DOMAIN vis.labels[k].textList :
                   vis.labels[i].textList[j] = vis.labels[k].textList[l] => (i = k /\ j = l)

\* C28 witness: the second of two frames drew an animated vector at a
\* configuration other than its own, which it has again after the frame
C28_Witness ==
    /\ rhist.op = "display" /\ rhist.outcome = "returned"
    /\ rhist.args[1]
    /\ "x" \in DOMAIN items
    /\ items["x"].obj.item.kind = "Vector3"
    /\ items["x"].obj.animation # Nothing
    /\ items["x"].obj.item.q = <<1>>
    /\ Len(vis.labels) = 1
    /\ vis.labels[1].point = 2
    /\ vis.labels[1].textList = <<"x">>

----------------------------------------------------------------------------
(* SpecShare: the attributes of composite items: Groups, a Group with a    *)
(* subgroup, Holds.                                                        *)

ShareItems == {GroupItem(<<>>, 1), NestedGroupItem(<<>>, 1), HoldItem(<<>>, 1)}

NextShare ==
    \/ \E name \in AddNames, item \in ShareItems, keep \in BOOLEAN : Add(name, item, keep)
    \/ \E name \in AddNames, value \in {"a", PyNone} : SetAttribute(name, "size", value)
    \/ \E name \in AddNames, color \in Colors : SetColor(name, color)
    \/ \E name \in AddNames, hidden \in {"True", "False"} : HideLabel(name, hidden)
    \/ \E order \in UNION {Orders(names) : names \in SUBSET Names} : Display(order)

SpecShare == InitFrame /\ [][NextShare]_vars

RECURSIVE sharesDown(_, _)
\* every sub-appearance below a, at every depth, holds the dict of its
\* holder, with the given content
sharesDown(a, attributes) ==
    \A i \in DOMAIN a.subAppearances :
        /\ a.subAppearances[i].app.sharedAttributes
        /\ a.subAppearances[i].app.attributes = attributes
        /\ sharesDown(a.subAppearances[i].app, attributes)

\* C30 (as claimed): after setAttribute or setColor on a registered item,
\* every sub-appearance at every depth reads the attribute map of the
\* top-level appearance.
C30_SharedAttributes ==
    (rhist.op \in {"setAttribute", "setColor"} /\ rhist.outcome = "returned") =>
        sharesDown(items[rhist.name].obj, items[rhist.name].obj.attributes)

----------------------------------------------------------------------------
(* SpecGeneric: frames over a generic item, a list of floats for which     *)
(* objectToTypes returns a list of candidate kinds, with or without a      *)
(* WorldModel registered under the name 'world'.                           *)

\* the links of the first robot of the world
MaxLinks == 6

GenericNames == {"x", "world"}

\* the kinds objectToTypes names; draw() tests for the first three
CandidateKinds == {"Config", "Vector3", "RigidTransform", "Vector"}

\* the lists objectToTypes returns: one candidate, or two of which both,
\* one or none can be valid
TypeLists ==
    {<<k>> : k \in CandidateKinds}
    \cup {<<"Config", "Vector3">>, <<"Vector3", "RigidTransform">>, <<"Config", "Vector">>}

GenericItems == {GenericItem(q, types) : q \in Configs, types \in TypeLists}

Worlds == {WorldItem(1, n) : n \in 1..MaxLinks}

NextGeneric ==
    \/ \E item \in GenericItems : Add("x", item, FALSE)
    \/ \E item \in Worlds : Add("world", item, FALSE)
    \/ \E name \in GenericNames : Remove(name)
    \/ \E order \in UNION {Orders(names) : names \in SUBSET GenericNames} : Display(order)

SpecGeneric == InitFrame /\ [][NextGeneric]_vars

\* the test the documentation gives for a candidate kind: a Config needs a
\* world whose first robot has as many links as the item has entries
validTypeDoc(t, item, world) ==
    \/ /\ t = "Config"
       /\ world # NoWorld
       /\ Len(item.q) = world[1].links
    \/ t = "Vector3"
    \/ t = "RigidTransform"

\* how many candidates of the item pass that test
validCountDoc(item, world) ==
    Cardinality({i \in DOMAIN item.types : validTypeDoc(item.types[i], item, world)})

\* C31 (as claimed): a frame draws an item whose only candidate kind is
\* Config, by posing the robot, exactly if a world is registered and the
\* item has as many entries as the world's first robot has links; an item
\* whose only candidate is Vector3 or RigidTransform is always drawn.
C31_ConfigCandidate ==
    (rhist.op = "display" /\ rhist.outcome = "returned" /\ "x" \in DOMAIN items
       /\ Len(items["x"].obj.item.types) = 1) =>
        LET item  == items["x"].obj.item
            world == worldOf(items)
        IN  /\ item.types[1] = "Config" =>
                   (rhist.result[5]["x"] = "robot"
                        <=> (world # NoWorld /\ Len(item.q) = world[1].links))
            /\ item.types[1] \in {"Vector3", "RigidTransform"} =>
                   rhist.result[5]["x"] = "cache"

\* C32 (as claimed): a frame draws a generic item exactly if one of its
\* candidate kinds is valid; otherwise its display cache is as before the
\* frame; in both cases the frame visits every registered item.
C32_AmbiguousSkipped ==
    (rhist.op = "display" /\ "x" \in DOMAIN items) =>
        LET item  == items["x"].obj.item
            world == worldOf(items)
        IN  /\ rhist.outcome = "returned"
            /\ rhist.result[1] = DOMAIN items
            /\ rhist.result[5]["x"] \in {"cache", "robot"} <=> validCountDoc(item, world) = 1
            /\ validCountDoc(item, world) # 1 =>
                   items["x"].obj.displayCache = rhist.pre["x"].obj.displayCache

----------------------------------------------------------------------------
(* SpecHide: hide and hideLabel between frames.                            *)

NextHide ==
    \/ \E name \in AddNames, item \in RegItems : Add(name, item, FALSE)
    \/ \E name \in AddNames, hidden \in BOOLEAN : Hide(name, hidden)
    \/ \E name \in AddNames, hidden \in {"True", "False"} : HideLabel(name, hidden)
    \/ \E order \in UNION {Orders(names) : names \in SUBSET Names} : Display(order)

SpecHide == InitFrame /\ [][NextHide]_vars

RECURSIVE cachesOf(_)
RECURSIVE cachesOfSubs(_)
\* the display caches of an appearance and of its sub-appearances
cachesOf(a) == a.displayCache \o cachesOfSubs(a.subAppearances)

cachesOfSubs(subs) ==
    IF subs = <<>> THEN <<>> ELSE cachesOf(Head(subs).app) \o cachesOfSubs(Tail(subs))

\* the fields of an appearance other than its attributes, caches and
\* sub-appearances are the same in a and b
sameFields(a, b) ==
    /\ a.name = b.name /\ a.item = b.item
    /\ a.useDefaultAppearance = b.useDefaultAppearance
    /\ a.customAppearance = b.customAppearance
    /\ a.animation = b.animation /\ a.drawConfig = b.drawConfig

\* C33 (as claimed): a step of hide or of hideLabel on a registered item
\* changes the hidden flag, respectively the attribute text_hidden, and
\* nothing else: every display cache of the item is as before, no dirty flag
\* is set.
C33_HideKeepsCaches ==
    [][(rhist'.op \in {"hide", "hideLabel"} /\ rhist'.outcome = "returned") =>
          LET a == items[rhist'.name].obj
              b == items'[rhist'.name].obj
          IN  /\ gl' = gl
              /\ sameFields(a, b)
              /\ cachesOf(b) = cachesOf(a)
              /\ rhist'.op = "hide" =>
                     b.hidden = rhist'.args[1] /\ b.attributes = a.attributes
              /\ rhist'.op = "hideLabel" =>
                     /\ b.hidden = a.hidden
                     /\ b.attributes = [a.attributes EXCEPT !["text_hidden"] = rhist'.args[1]]]_vars

\* C33 (amended): a step of hide changes the hidden flag and nothing else,
\* no display cache is touched; a step of hideLabel changes the attribute
\* text_hidden and marks every display cache of the item changed, keeping
\* their display lists and fingerprints.
C33_HideLabelMarks ==
    [][(rhist'.op \in {"hide", "hideLabel"} /\ rhist'.outcome = "returned") =>
          LET a == items[rhist'.name].obj
              b == items'[rhist'.name].obj
          IN  /\ gl' = gl
              /\ sameFields(a, b)
              /\ rhist'.op = "hide" =>
                     /\ b.hidden = rhist'.args[1] /\ b.attributes = a.attributes
                     /\ cachesOf(b) = cachesOf(a)
              /\ rhist'.op = "hideLabel" =>
                     /\ b.hidden = a.hidden
                     /\ b.attributes = [a.attributes EXCEPT !["text_hidden"] = rhist'.args[1]]
                     /\ cachesOf(b) = [i \in DOMAIN cachesOf(a) |->
                                          [cachesOf(a)[i] EXCEPT !.changed = TRUE]]]_vars

\* C33 witness: hideLabel returned on an item that a frame had drawn: its
\* cache holds the display list and is marked changed
C33_Witness ==
    /\ rhist.op = "hideLabel" /\ rhist.outcome = "returned"
    /\ items[rhist.name].obj.displayCache[1].glDisplayList # None
    /\ items[rhist.name].obj.displayCache[1].changed
    /\ items[rhist.name].obj.attributes["text_hidden"] = "True"

----------------------------------------------------------------------------
(* SpecHidden: hide between frames over a vector or a Group, next to one   *)
(* VisAppearance of an item with an appearance of its own, under           *)
(* setAppearance, hide and draw.                                           *)

InitHidden ==
    /\ IdleGLInit
    /\ IdleCache /\ IdleThr
    /\ gl = GLInit
    /\ vis = VisInit
    /\ items = NoItems
    /\ globalLock = "free"
    /\ rhist = RHistInit
    /\ app = VisAppearance(ObjectItem, "x")
    /\ ahist = AHistInit

NextHidden ==
    \/ \E name \in AddNames, item \in RegItems : Add(name, item, FALSE)
    \/ \E name \in AddNames, hidden \in BOOLEAN : Hide(name, hidden)
    \/ \E order \in UNION {Orders(names) : names \in SUBSET Names} : Display(order)
    \/ OSetAppearance(1)
    \/ \E hidden \in BOOLEAN : OHide(hidden)
    \/ ODraw(FALSE)

SpecHidden == InitHidden /\ [][NextHidden]_vars

\* C35: a frame leaves a hidden item exactly as it was, caches and
\* sub-appearances included, compiles and replays nothing for it, and adds
\* no label; if every item is hidden the GL state is as before.  A visible
\* vector whose cache holds a list and is not marked changed is drawn by
\* replaying that list.  draw() on a hidden appearance with an appearance
\* override leaves the item's appearance alone.
C35_HiddenNoWork ==
    [][/\ (rhist'.op = "display" /\ rhist'.outcome = "returned" /\ UNCHANGED appVars) =>
              /\ \A n \in DOMAIN items :
                     /\ items[n].obj.hidden =>
                            /\ items'[n] = items[n]
                            /\ rhist'.result[2][n] = 0 /\ rhist'.result[4][n] = 0
                     /\ (/\ ~items[n].obj.hidden /\ items[n].obj.item.kind = "Vector3"
                         /\ items[n].obj.displayCache[1].glDisplayList # None
                         /\ ~items[n].obj.displayCache[1].changed
                         /\ ~items[n].obj.displayCache[1].makingDisplayList) =>
                            /\ rhist'.result[2][n] = 0 /\ rhist'.result[4][n] = 1
                            /\ items'[n].obj.displayCache = items[n].obj.displayCache
              /\ (\A n \in DOMAIN items : items[n].obj.hidden) =>
                     gl' = gl /\ vis'.labels = <<>>
       /\ ahist'.event = "drawHidden" => app' = app]_vars

\* C35 witness: a frame that followed hide() skipped a hidden vector whose
\* cache holds the list of an earlier frame, and draw() was called on a
\* hidden appearance that has a custom appearance
C35_Witness ==
    /\ rhist.op = "display" /\ rhist.outcome = "returned"
    /\ rhist.args[2] = "hide"
    /\ "x" \in DOMAIN items
    /\ items["x"].obj.hidden
    /\ items["x"].obj.item.kind = "Vector3"
    /\ rhist.result[5]["x"] = "hidden"
    /\ items["x"].obj.displayCache[1].glDisplayList # None
    /\ ahist.event = "drawHidden"
    /\ app.customAppearance # None

\* C38 (as claimed): between the calls of the script and the frames no
\* draw() is active, and the recursion guard of every display cache is
\* false, also after a frame in which a render function raised; a frame that
\* returns has drawn every visible vector through its cache, by compiling or
\* by replaying.
C38_GuardCleared ==
    /\ \A n \in DOMAIN items :
           \A i \in DOMAIN cachesOf(items[n].obj) :
               ~cachesOf(items[n].obj)[i].makingDisplayList
    /\ (rhist.op = "display" /\ rhist.outcome = "returned") =>
           \A n \in DOMAIN items :
               (items[n].obj.item.kind = "Vector3" /\ ~items[n].obj.hidden) =>
                   rhist.result[2][n] + rhist.result[4][n] = 1

----------------------------------------------------------------------------
(* SpecIK: one VisAppearance of an IKGoal item, with or without a robot of *)
(* its own, drawn with no world, with a world without robots and with a    *)
(* world with a robot.                                                     *)

IKItems == {IKGoalItem(<<>>, r) : r \in BOOLEAN}

IKWorlds == {NoWorld, Some(WorldItem(0, 0)), Some(WorldItem(1, 1))}

InitIK ==
    /\ IdleGLInit
    /\ IdleCache /\ IdleReg /\ IdleThr /\ globalLock = "free"
    /\ gl = GLInit
    /\ vis = VisInit
    /\ app \in {VisAppearance(item, "x") : item \in IKItems}
    /\ ahist = AHistInit

\* draw(world)
ADrawWorld(world) ==
    LET r == drawWorld(app, world, gl)
    IN  /\ r.gl.next <= MaxLists + 1
        /\ app' = r.app
        /\ gl' = r.gl
        /\ ahist' = [AHistInit EXCEPT !.event = "drawWorld", !.world = world]
        /\ UNCHANGED notAppVars

NextIK ==
    \/ \E item \in IKItems \cup {VectorItem(<<>>)} : ASetItem(item)
    \/ \E hidden \in BOOLEAN : OHide(hidden)
    \/ AMarkChanged
    \/ ADestroy
    \/ \E world \in IKWorlds : ADrawWorld(world)

SpecIK == InitIK /\ [][NextIK]_vars

\* C36: every step leaves the display cache list with 1 or 3 entries and
\* never with fewer than before; draw(world) on a visible IKGoal with a robot
\* of its own, or else with a world that has a robot, leaves three caches that
\* each hold a display list; with no robot to be found it leaves the
\* appearance and the GL state as they were.  (The goals of the model
\* constrain a position, the form that draws through all three caches.)
C36_IKGoalCaches ==
    [][/\ Len(app'.displayCache) \in {1, 3}
       /\ Len(app'.displayCache) >= Len(app.displayCache)
       /\ (ahist'.event = "drawWorld" /\ app.item.kind = "IKGoal" /\ ~app.hidden) =>
              IF app.item.robot \/ (ahist'.world # NoWorld /\ ahist'.world[1].robots >= 1)
                 THEN /\ Len(app'.displayCache) = 3
                      /\ \A i \in 1..3 : app'.displayCache[i].glDisplayList # None
                 ELSE app' = app /\ gl' = gl]_vars

\* C36 witness: draw(world) with a world without robots, on an IKGoal
\* without a robot whose appearance got its three caches in an earlier draw
C36_Witness ==
    /\ ahist.event = "drawWorld"
    /\ ahist.world = Some(WorldItem(0, 0))
    /\ app.item.kind = "IKGoal" /\ ~app.item.robot /\ ~app.hidden
    /\ Len(app.displayCache) = 3

----------------------------------------------------------------------------
(* SpecGLInit: glinit.init(backends) called again and again, with lists of *)
(* backend names, on a machine where some of the toolkits are installed.   *)

\* the longest `backends` list
MaxBackends == 2

\* the toolkits init() imports: PyQt5, PyQt4, OpenGL.GLUT
Toolkits == {"PyQt5", "PyQt4", "GLUT"}

\* the names init() has a branch for
KnownBackends == {"PyQt", "PyQt5", "PyQt4", "GLUT"}

\* the names a caller passes: the known ones and one init() has no branch for
BackendNames == KnownBackends \cup {"wx"}

BackendLists ==
    UNION {[1..n -> BackendNames] : n \in 0..MaxBackends}

\* _BackendStatus[backend] = status
setStatus(status, backend, value) ==
    [b \in DOMAIN status \cup {backend} |->
        IF b = backend THEN value ELSE status[b]]

\* a mutant of tried: no name counts as tried
tried_never(status, backend) == FALSE

\* tried(backend)
tried(status, backend) == backend \in DOMAIN status

\* available(backend)
available(status, backend) ==
    IF backend \in DOMAIN status THEN status[backend] = "available" ELSE FALSE

\* QtBackend() or GLUTBackend(), the n-th backend object constructed
Backend(class, n) == [class |-> class, id |-> n]

\* the body of init()'s loop for a name that has a branch: the imports of
\* the branch succeed and the backend is constructed, or they raise
\* ImportError and the name is recorded as unavailable
tryBackend(backend, g, installed, n) ==
    LET qt(toolkit) ==
            [ BackendStatus |-> setStatus(setStatus(g.BackendStatus, backend, "available"),
                                          toolkit, "available"),
              GLBackend     |-> Some(Backend("QtBackend", n)),
              BackendString |-> Some(toolkit) ]
    IN  IF backend = "PyQt"
           THEN IF "PyQt5" \in installed THEN qt("PyQt5")
                ELSE IF "PyQt4" \in installed THEN qt("PyQt4")
                ELSE [g EXCEPT !.BackendStatus =
                         setStatus(setStatus(setStatus(@, backend, "unavailable"),
                                             "PyQt4", "unavailable"),
                                   "PyQt5", "unavailable")]
        ELSE IF backend = "PyQt5"
           THEN IF "PyQt5" \in installed
                   THEN [ BackendStatus |-> setStatus(setStatus(g.BackendStatus, backend, "available"),
                                                      "PyQt", "available"),
                          GLBackend     |-> Some(Backend("QtBackend", n)),
                          BackendString |-> Some("PyQt5") ]
                   ELSE [g EXCEPT !.BackendStatus = setStatus(@, backend, "unavailable")]
        ELSE IF backend = "PyQt4"
           THEN IF "PyQt4" \in installed THEN qt("PyQt4")
                ELSE [g EXCEPT !.BackendStatus = setStatus(@, backend, "unavailable")]
        ELSE IF "GLUT" \in installed
                THEN [ BackendStatus |-> setStatus(g.BackendStatus, "GLUT", "available"),
                       GLBackend     |-> Some(Backend("GLUTBackend", n)),
                       BackendString |-> Some("GLUT") ]
                ELSE [g EXCEPT !.BackendStatus = setStatus(@, "GLUT", "unavailable")]

RECURSIVE initLoop(_, _, _)
\* init(), the loop over `backends` and the `return None` after it: the
\* globals and the record of the call afterwards
initLoop(backends, g, h) ==
    IF backends = <<>> THEN [g |-> g, h |-> [h EXCEPT !.returned = Nothing]]
    ELSE LET backend == Head(backends)
         IN  IF tried(g.BackendStatus, backend)
                THEN initLoop(Tail(backends), g, [h EXCEPT !.skipped = Append(@, backend)])
             ELSE IF backend \notin KnownBackends
                THEN initLoop(Tail(backends), g, h)
             ELSE LET g1 == tryBackend(backend, g, h.installed, h.created + 1)
                      h1 == [h EXCEPT !.attempts = Append(@, backend)]
                  IN  IF g1.GLBackend # Nothing
                         THEN [g |-> g1,
                               h |-> [h1 EXCEPT !.created = @ + 1, !.returned = g1.GLBackend]]
                         ELSE initLoop(Tail(backends), g1, h1)

\* init(backends)
init(backends) ==
    LET h0 == [ghist EXCEPT !.backends = backends, !.before = glinit.GLBackend]
    IN  /\ IF glinit.GLBackend # Nothing
              THEN /\ glinit' = glinit
                   /\ ghist' = [h0 EXCEPT !.returned = glinit.GLBackend, !.looped = FALSE]
              ELSE LET r == initLoop(backends, glinit,
                                     [h0 EXCEPT !.looped = TRUE, !.attempts = <<>>,
                                                !.skipped = <<>>])
                   IN  glinit' = r.g /\ ghist' = r.h
        /\ UNCHANGED <<gl, globalLock, vis, cacheVars, appVars, regVars, thrVars>>

InitGLInit ==
    /\ IdleCache /\ IdleApp /\ IdleReg /\ IdleThr /\ globalLock = "free"
    /\ gl = GLInit
    /\ vis = VisInit
    /\ glinit = GLInitGlobals
    /\ ghist \in {[GHistInit EXCEPT !.installed = i] : i \in SUBSET Toolkits}

NextGLInit == \E backends \in BackendLists : init(backends)

SpecGLInit == InitGLInit /\ [][NextGLInit]_vars

occurrences(s, x) == Cardinality({i \in DOMAIN s : s[i] = x})

\* C39: a call of init() made when a backend has been initialized returns
\* that backend and changes no global, whatever its argument; and a call
\* enters the branch of no name that the status table held when it was
\* called, and of no name twice.
C39_InitIdempotent ==
    [][/\ glinit.GLBackend # Nothing =>
              /\ ghist'.returned = glinit.GLBackend
              /\ glinit' = glinit
              /\ ~ghist'.looped /\ ghist'.created = ghist.created
       /\ ghist'.looped =>
              \A i \in DOMAIN ghist'.attempts :
                  /\ ghist'.attempts[i] \notin DOMAIN glinit.BackendStatus
                  /\ occurrences(ghist'.attempts, ghist'.attempts[i]) = 1]_vars

\* C39 witness: init(['PyQt4', 'GLUT']) passed over PyQt4, which an earlier
\* call had recorded, and initialized GLUT; the next call, init(['PyQt5'])
\* with PyQt5 installed, returned the GLUT backend
C39_Witness ==
    /\ ghist.installed = {"PyQt5", "GLUT"}
    /\ ghist.skipped = <<"PyQt4">> /\ ghist.attempts = <<"GLUT">>
    /\ ~ghist.looped
    /\ ghist.backends = <<"PyQt5">>
    /\ ghist.before = Some(Backend("GLUTBackend", 1))
    /\ ghist.returned = ghist.before
    /\ glinit.BackendString = Some("GLUT")

====
